---- MODULE Spec2Model ----
(***************************************************************************)
(* The weather ingestion pipeline of collect_weather_data.py over the      *)
(* tables of create_tables.py, read by app.py.                             *)
(*                                                                         *)
(* Dates are day numbers.  Decimal quantities (temperatures, wind speed,   *)
(* precipitation, the float operands of humidity and pressure) are         *)
(* integers counting hundredths, the scale of the DECIMAL(5,2) columns.    *)
(* Python's None and SQL's NULL are the empty tuple; a present nullable    *)
(* value v is <<v>>.                                                       *)
(***************************************************************************)
EXTENDS Integers, Sequences, FiniteSets, TLC

VARIABLES
    today,          \* the wall-clock date, datetime.date.today()
    cities,         \* table cities, as the batch's connection sees it
    weather_data,   \* table weather_data, as the batch's connection sees it
    weather_stats,  \* table weather_stats, as the batch's connection sees it
    committed,      \* the three tables as committed (what other connections see)
    pc,             \* position of main(): idle, geocode, resolve, fetch, write, stats, verify
    city_idx,       \* index of city_name in cities_to_collect
    city_info,      \* result of get_city_coordinates
    city_id,        \* id of the resolved city
    end_date,       \* main's end_date
    start_date,     \* main's start_date
    source_answer,  \* kind of the archive source's answer to the last fetch
    daily_list,     \* main's local list weather_data returned by the fetch
    day_idx,        \* index of daily_data in that list
    data_inserted,  \* main's counter data_inserted
    runs,           \* number of batch runs started
    cur_run,        \* what the running batch did, per city
    prev_run,       \* what the previous finished batch did, and the row counts it left
    connected,      \* whether the connection conn of the batch still reaches the server
    attempted,      \* the periods whose pass the last call of calculate_weather_stats began
    call            \* the call of a function under test: its arguments and result

vars == <<today, cities, weather_data, weather_stats, committed, pc, city_idx,
          city_info, city_id, end_date, start_date, source_answer, daily_list,
          day_idx, data_inserted, runs, cur_run, prev_run, connected, attempted, call>>

\* the variables of the batch
batch_vars == <<today, cities, weather_data, weather_stats, committed, pc, city_idx,
                city_info, city_id, end_date, start_date, source_answer, daily_list,
                day_idx, data_inserted, runs, cur_run, prev_run, connected, attempted>>

----------------------------------------------------------------------------
(* Values *)

Scale == 100

None == <<>>
Some(v) == <<v>>

Abs(x) == IF x < 0 THEN -x ELSE x
Max2(a, b) == IF a > b THEN a ELSE b
Min2(a, b) == IF a < b THEN a ELSE b

\* Division truncating toward zero: Python's int() of a quotient, SQL's integer AVG.
\* A variant that rounds to the nearest whole, a half going up
TruncDiv_RoundsHalfUp(a, b) == (2 * a + b) \div (2 * b)

TruncDiv(a, b) == IF a >= 0 THEN a \div b ELSE -((-a) \div b)

\* round(x, 1) on a value in hundredths: the nearest tenth, a tie going to the
\* even tenth (Python rounds the exact value to nearest, ties to even).
RoundTenth(x) ==
    LET q == x \div 10
        r == x % 10
    IN  IF r < 5 THEN 10 * q
        ELSE IF r > 5 THEN 10 * (q + 1)
        ELSE IF q % 2 = 0 THEN 10 * q ELSE 10 * (q + 1)

SetMax(S) == CHOOSE x \in S : \A y \in S : y <= x
SetMin(S) == CHOOSE x \in S : \A y \in S : x <= y

----------------------------------------------------------------------------
(* Condition and description classification *)

\* A variant that takes a rain of exactly 10 for heavy
get_weather_condition_HeavyFromTen(precipitation, rain, snowfall) ==
    IF snowfall > 0 THEN "Snow"
    ELSE IF rain > 0
         THEN (IF rain >= 10 * Scale THEN "Heavy Rain" ELSE "Rain")
    ELSE IF precipitation > 0 THEN "Precipitation"
    ELSE "Clear"

\* A variant that tests the total precipitation before the rain
get_weather_condition_PrecipitationFirst(precipitation, rain, snowfall) ==
    IF snowfall > 0 THEN "Snow"
    ELSE IF precipitation > 0 THEN "Precipitation"
    ELSE IF rain > 0
         THEN (IF rain > 10 * Scale THEN "Heavy Rain" ELSE "Rain")
    ELSE "Clear"

get_weather_condition(precipitation, rain, snowfall) ==
    IF snowfall > 0 THEN "Snow"
    ELSE IF rain > 0
         THEN (IF rain > 10 * Scale THEN "Heavy Rain" ELSE "Rain")
    ELSE IF precipitation > 0 THEN "Precipitation"
    ELSE "Clear"

\* A variant that tests the rain before the snowfall
get_weather_description_RainFirst(precipitation, rain, snowfall) ==
    IF rain > 0
    THEN (IF rain > 10 * Scale THEN "Heavy rain"
          ELSE IF rain > 2 * Scale THEN "Moderate rain"
          ELSE "Light rain")
    ELSE IF snowfall > 0
         THEN (IF snowfall > 5 * Scale THEN "Heavy snow" ELSE "Light snow")
    ELSE IF precipitation > 0 THEN "Precipitation"
    ELSE "Clear sky"

get_weather_description(precipitation, rain, snowfall) ==
    IF snowfall > 0
    THEN (IF snowfall > 5 * Scale THEN "Heavy snow" ELSE "Light snow")
    ELSE IF rain > 0
         THEN (IF rain > 10 * Scale THEN "Heavy rain"
               ELSE IF rain > 2 * Scale THEN "Moderate rain"
               ELSE "Light rain")
    ELSE IF precipitation > 0 THEN "Precipitation"
    ELSE "Clear sky"

----------------------------------------------------------------------------
(* Synthetic Generator: generate_sample_weather_data *)

Season(is_northern, current_month) ==
    IF is_northern
    THEN (IF current_month \in {12, 1, 2} THEN "winter"
          ELSE IF current_month \in {3, 4, 5} THEN "spring"
          ELSE IF current_month \in {6, 7, 8} THEN "summer"
          ELSE "fall")
    ELSE (IF current_month \in {12, 1, 2} THEN "summer"
          ELSE IF current_month \in {3, 4, 5} THEN "fall"
          ELSE IF current_month \in {6, 7, 8} THEN "winter"
          ELSE "spring")

\* base_temp before the latitude adjustment, in degrees
SeasonBase(season, is_northern) ==
    IF season = "winter" THEN (IF is_northern THEN 5 ELSE 15)
    ELSE IF season = "spring" THEN (IF is_northern THEN 15 ELSE 20)
    ELSE IF season = "summer" THEN (IF is_northern THEN 25 ELSE 30)
    ELSE (IF is_northern THEN 15 ELSE 20)

temp_range == 10

\* base_temp after "base_temp -= latitude_factor * 10", in hundredths
base_temp(latitude, current_month) ==
    LET is_northern == latitude > 0
    IN  SeasonBase(Season(is_northern, current_month), is_northern) * Scale
        - (Abs(latitude) * 10 * Scale) \div 90

weather_conditions == <<"Clear", "Clouds", "Rain", "Snow", "Thunderstorm">>

weather_descriptions ==
    [c \in {"Clear", "Clouds", "Rain", "Snow", "Thunderstorm"} |->
        CASE c = "Clear" -> <<"clear sky", "sunny", "mostly clear">>
          [] c = "Clouds" -> <<"few clouds", "scattered clouds", "overcast">>
          [] c = "Rain" -> <<"light rain", "moderate rain", "heavy rain", "showers">>
          [] c = "Snow" -> <<"light snow", "moderate snow", "heavy snow", "blizzard">>
          [] OTHER -> <<"thunderstorm", "thunderstorm with rain", "severe thunderstorm">>]

\* A variant whose hot-day weights leave snow possible
condition_weights_HotAllowsSnow(temp_min, temp_mean) ==
    IF temp_min < 0 THEN <<2, 2, 1, 4, 1>>
    ELSE IF temp_mean > 30 * Scale THEN <<3, 3, 2, 1, 2>>
    ELSE <<3, 3, 2, 1, 1>>

\* condition_weights, in tenths
condition_weights(temp_min, temp_mean) ==
    IF temp_min < 0 THEN <<2, 2, 1, 4, 1>>
    ELSE IF temp_mean > 30 * Scale THEN <<3, 3, 2, 0, 2>>
    ELSE <<3, 3, 2, 1, 1>>

\* what random.choices(weather_conditions, weights, k=1)[0] can return
ConditionChoices(temp_min, temp_mean) ==
    {weather_conditions[k] : k \in {n \in 1..5 : condition_weights(temp_min, temp_mean)[n] > 0}}

\* One pass of the while loop: the record appended to daily_data.  rnd holds the
\* pass's random draws: first in [-temp_range/2, temp_range/2], walk in [-3, 3],
\* dmin and dmax in [1, 5], feels in [-2, 2], hum in [-10, 10], press in [-15, 15],
\* wind in [0, 20] (all in hundredths), dir in 0..359, cond and desc.
\* A variant that draws the maximum above the minimum instead of above the mean
SampleDay_MaxFromMin(daily_data, current_date, base, rnd) ==
    LET raw_mean == IF daily_data # <<>>
                    THEN daily_data[Len(daily_data)].temperature + rnd.walk
                    ELSE base + rnd.first
        temp_mean == Max2(-30 * Scale, Min2(50 * Scale, raw_mean))
        temp_min == temp_mean - rnd.dmin
        temp_max == temp_min + rnd.dmax
        feels_like == temp_mean + rnd.feels
        humidity == TruncDiv(40 * Scale + (temp_mean * 40) \div 50 + rnd.hum, Scale)
        pressure == TruncDiv(1013 * Scale + rnd.press, Scale)
    IN  [date |-> current_date,
         temperature |-> RoundTenth(temp_mean),
         temperature_min |-> RoundTenth(temp_min),
         temperature_max |-> RoundTenth(temp_max),
         feels_like |-> RoundTenth(feels_like),
         pressure |-> Some(pressure),
         humidity |-> Some(Max2(10, Min2(100, humidity))),
         wind_speed |-> RoundTenth(rnd.wind),
         wind_direction |-> rnd.dir,
         weather_condition |-> rnd.cond,
         weather_description |-> rnd.desc]

\* A variant that does not keep the mean within -30 and 50
SampleDay_Unclamped(daily_data, current_date, base, rnd) ==
    LET raw_mean == IF daily_data # <<>>
                    THEN daily_data[Len(daily_data)].temperature + rnd.walk
                    ELSE base + rnd.first
        temp_mean == raw_mean
        temp_min == temp_mean - rnd.dmin
        temp_max == temp_mean + rnd.dmax
        feels_like == temp_mean + rnd.feels
        humidity == TruncDiv(40 * Scale + (temp_mean * 40) \div 50 + rnd.hum, Scale)
        pressure == TruncDiv(1013 * Scale + rnd.press, Scale)
    IN  [date |-> current_date,
         temperature |-> RoundTenth(temp_mean),
         temperature_min |-> RoundTenth(temp_min),
         temperature_max |-> RoundTenth(temp_max),
         feels_like |-> RoundTenth(feels_like),
         pressure |-> Some(pressure),
         humidity |-> Some(Max2(10, Min2(100, humidity))),
         wind_speed |-> RoundTenth(rnd.wind),
         wind_direction |-> rnd.dir,
         weather_condition |-> rnd.cond,
         weather_description |-> rnd.desc]

SampleDay(daily_data, current_date, base, rnd) ==
    LET raw_mean == IF daily_data # <<>>
                    THEN daily_data[Len(daily_data)].temperature + rnd.walk
                    ELSE base + rnd.first
        temp_mean == Max2(-30 * Scale, Min2(50 * Scale, raw_mean))
        temp_min == temp_mean - rnd.dmin
        temp_max == temp_mean + rnd.dmax
        feels_like == temp_mean + rnd.feels
        humidity == TruncDiv(40 * Scale + (temp_mean * 40) \div 50 + rnd.hum, Scale)
        pressure == TruncDiv(1013 * Scale + rnd.press, Scale)
    IN  [date |-> current_date,
         temperature |-> RoundTenth(temp_mean),
         temperature_min |-> RoundTenth(temp_min),
         temperature_max |-> RoundTenth(temp_max),
         feels_like |-> RoundTenth(feels_like),
         pressure |-> Some(pressure),
         humidity |-> Some(Max2(10, Min2(100, humidity))),
         wind_speed |-> RoundTenth(rnd.wind),
         wind_direction |-> rnd.dir,
         weather_condition |-> rnd.cond,
         weather_description |-> rnd.desc]

\* The locals of a pass before the rounding: the mean as drawn, the mean kept
\* within bounds, the minimum, and the weights of the day's regime
PassLocals(daily_data, base, rnd) ==
    LET raw_mean == IF daily_data # <<>>
                    THEN daily_data[Len(daily_data)].temperature + rnd.walk
                    ELSE base + rnd.first
        temp_mean == Max2(-30 * Scale, Min2(50 * Scale, raw_mean))
        temp_min == temp_mean - rnd.dmin
    IN  [raw_mean |-> raw_mean, temp_mean |-> temp_mean, temp_min |-> temp_min,
         weights |-> condition_weights(temp_min, temp_mean)]

\* The draws of a pass are allowed ones: the condition has a positive weight in
\* the regime of the day, the description is one of the condition's phrases.
DrawsAllowed(daily_data, base, rnd) ==
    LET raw_mean == IF daily_data # <<>>
                    THEN daily_data[Len(daily_data)].temperature + rnd.walk
                    ELSE base + rnd.first
        temp_mean == Max2(-30 * Scale, Min2(50 * Scale, raw_mean))
    IN  /\ rnd.cond \in ConditionChoices(temp_mean - rnd.dmin, temp_mean)
        /\ \E k \in 1..Len(weather_descriptions[rnd.cond]) :
               rnd.desc = weather_descriptions[rnd.cond][k]

\* A variant that stops before the end date
LoopContinues_Exclusive(current_date, end) == current_date < end

\* "while current_date <= end_date"
LoopContinues(current_date, end) == current_date <= end

\* The whole loop, the pass for date d drawing tape[d].
RECURSIVE SampleLoop(_, _, _, _, _)
SampleLoop(daily_data, current_date, end, base, tape) ==
    IF LoopContinues(current_date, end)
    THEN SampleLoop(Append(daily_data, SampleDay(daily_data, current_date, base, tape[current_date])),
                    current_date + 1, end, base, tape)
    ELSE daily_data

generate_sample_weather_data(start, end, latitude, current_month, tape) ==
    SampleLoop(<<>>, start, end, base_temp(latitude, current_month), tape)

----------------------------------------------------------------------------
(* Historical Fetcher: get_historical_weather_data *)

(* A response of the archive source is [kind, time, rows]: kind "error" is a    *)
(* transport, HTTP-status or parse failure (an exception inside the try);       *)
(* kind "nodaily" a successful answer without a daily series; kind "daily" a    *)
(* successful answer whose daily series reports the dates time[i] with the raw  *)
(* values rows[i] (the i-th entry of each of the source's arrays, None where    *)
(* the array is missing or holds null).                                         *)

OrZero(o) == IF o = None THEN 0 ELSE o[1]

\* A variant whose feels_like is always the mean temperature
FetchDay_FeelsLikeMean(date, raw, dir) ==
    IF \/ raw.temperature_2m_mean = None
       \/ raw.temperature_2m_min = None
       \/ raw.temperature_2m_max = None
    THEN None
    ELSE
      LET temp_mean == raw.temperature_2m_mean[1]
          precipitation == OrZero(raw.precipitation_sum)
          rain == OrZero(raw.rain_sum)
          snowfall == OrZero(raw.snowfall_sum)
      IN Some(
        [date |-> date,
         temperature |-> temp_mean,
         temperature_min |-> raw.temperature_2m_min[1],
         temperature_max |-> raw.temperature_2m_max[1],
         feels_like |->
            temp_mean,
         pressure |->
            IF raw.pressure_msl_max # None /\ raw.pressure_msl_min # None
            THEN Some(TruncDiv(raw.pressure_msl_max[1] + raw.pressure_msl_min[1], 2 * Scale))
            ELSE None,
         humidity |->
            IF raw.relative_humidity_2m_max # None /\ raw.relative_humidity_2m_min # None
            THEN Some(TruncDiv(raw.relative_humidity_2m_max[1] + raw.relative_humidity_2m_min[1],
                               2 * Scale))
            ELSE None,
         wind_speed |-> IF raw.windspeed_10m_max = None THEN 5 * Scale
                        ELSE raw.windspeed_10m_max[1],
         wind_direction |-> IF raw.winddirection_10m_dominant = None THEN dir
                            ELSE raw.winddirection_10m_dominant[1],
         weather_condition |-> get_weather_condition(precipitation, rain, snowfall),
         weather_description |-> get_weather_description(precipitation, rain, snowfall)])

\* One pass of "for i in range(len(time_array))": the record appended, or None
\* when the day is skipped.  dir is the pass's random.randint(0, 359).
FetchDay(date, raw, dir) ==
    IF \/ raw.temperature_2m_mean = None
       \/ raw.temperature_2m_min = None
       \/ raw.temperature_2m_max = None
    THEN None
    ELSE
      LET temp_mean == raw.temperature_2m_mean[1]
          precipitation == OrZero(raw.precipitation_sum)
          rain == OrZero(raw.rain_sum)
          snowfall == OrZero(raw.snowfall_sum)
      IN Some(
        [date |-> date,
         temperature |-> temp_mean,
         temperature_min |-> raw.temperature_2m_min[1],
         temperature_max |-> raw.temperature_2m_max[1],
         feels_like |->
            IF raw.apparent_temperature_max # None /\ raw.apparent_temperature_min # None
            THEN (raw.apparent_temperature_max[1] + raw.apparent_temperature_min[1]) \div 2
            ELSE temp_mean,
         pressure |->
            IF raw.pressure_msl_max # None /\ raw.pressure_msl_min # None
            THEN Some(TruncDiv(raw.pressure_msl_max[1] + raw.pressure_msl_min[1], 2 * Scale))
            ELSE None,
         humidity |->
            IF raw.relative_humidity_2m_max # None /\ raw.relative_humidity_2m_min # None
            THEN Some(TruncDiv(raw.relative_humidity_2m_max[1] + raw.relative_humidity_2m_min[1],
                               2 * Scale))
            ELSE None,
         wind_speed |-> IF raw.windspeed_10m_max = None THEN 5 * Scale
                        ELSE raw.windspeed_10m_max[1],
         wind_direction |-> IF raw.winddirection_10m_dominant = None THEN dir
                            ELSE raw.winddirection_10m_dominant[1],
         weather_condition |-> get_weather_condition(precipitation, rain, snowfall),
         weather_description |-> get_weather_description(precipitation, rain, snowfall)])

\* A variant that leaves the loop at the first day it skips
RECURSIVE FetchLoop_StopsAtSkip(_, _, _, _, _)
FetchLoop_StopsAtSkip(daily_data, i, time_array, rows, dir) ==
    IF i > Len(time_array) THEN daily_data
    ELSE LET got == FetchDay(time_array[i], rows[i], dir)
         IN  IF got = None THEN daily_data
             ELSE FetchLoop_StopsAtSkip(Append(daily_data, got[1]),
                                        i + 1, time_array, rows, dir)

RECURSIVE FetchLoop(_, _, _, _, _)
FetchLoop(daily_data, i, time_array, rows, dir) ==
    IF i > Len(time_array) THEN daily_data
    ELSE LET got == FetchDay(time_array[i], rows[i], dir)
         IN  FetchLoop(IF got = None THEN daily_data ELSE Append(daily_data, got[1]),
                       i + 1, time_array, rows, dir)

\* A variant that falls back to the generator when there is no daily series
get_historical_weather_data_FallsBack(response, start, end, latitude, current_month, tape, dir) ==
    IF response.kind = "error" \/ response.kind = "nodaily"
    THEN generate_sample_weather_data(start, end, latitude, current_month, tape)
    ELSE FetchLoop(<<>>, 1, response.time, response.rows, dir)

\* tape and dir are the random draws; current_month is datetime.date.today().month
get_historical_weather_data(response, start, end, latitude, current_month, tape, dir) ==
    IF response.kind = "error"
    THEN generate_sample_weather_data(start, end, latitude, current_month, tape)
    ELSE IF response.kind = "nodaily" THEN <<>>
    ELSE FetchLoop(<<>>, 1, response.time, response.rows, dir)

----------------------------------------------------------------------------
(* Storage: the tables of create_tables.py and the statements run on them *)

\* IDENTITY(1,1): an id no row of the table has
NextId(table) == IF table = {} THEN 1 ELSE SetMax({r.id : r \in table}) + 1

\* SELECT id FROM cities WHERE name = %s AND country = %s
SelectCity(table, name, country) ==
    {r \in table : r.name = name /\ r.country = country}

\* INSERT INTO cities (name, country, latitude, longitude)
InsertCity(table, info) ==
    table \cup {[id |-> NextId(table), name |-> info.name, country |-> info.country,
                 latitude |-> info.latitude, longitude |-> info.longitude]}

\* SELECT id FROM weather_data WHERE city_id = %s AND date = %s
SelectDay(table, cid, date) ==
    {r \in table : r.city_id = cid /\ r.date = date}

DayRow(id, cid, d) ==
    [id |-> id, city_id |-> cid, date |-> d.date,
     temperature |-> d.temperature, feels_like |-> d.feels_like,
     temperature_min |-> d.temperature_min, temperature_max |-> d.temperature_max,
     pressure |-> d.pressure, humidity |-> d.humidity,
     wind_speed |-> d.wind_speed, wind_direction |-> d.wind_direction,
     weather_condition |-> d.weather_condition,
     weather_description |-> d.weather_description]

\* UPDATE weather_data SET ... WHERE id = %s
\* A variant whose SET list leaves the humidity out
UpdateDay_KeepsHumidity(table, id, d) ==
    {IF r.id = id
     THEN DayRow(r.id, r.city_id, [d EXCEPT !.date = r.date, !.humidity = r.humidity])
     ELSE r : r \in table}

\* A variant that updates every day of the city of the row
UpdateDay_WholeCity(table, id, d) ==
    {IF \E x \in table : x.id = id /\ x.city_id = r.city_id
     THEN DayRow(r.id, r.city_id, [d EXCEPT !.date = r.date])
     ELSE r : r \in table}

UpdateDay(table, id, d) ==
    {IF r.id = id THEN DayRow(r.id, r.city_id, [d EXCEPT !.date = r.date]) ELSE r : r \in table}

\* INSERT INTO weather_data (...)
InsertDay(table, cid, d) == table \cup {DayRow(NextId(table), cid, d)}

\* The body of "for daily_data in weather_data": look the day up, update or insert.
\* fetchone() takes a row of the result.
UpsertDay(table, cid, d) ==
    LET result == SelectDay(table, cid, d.date)
    IN  IF result # {}
        THEN UpdateDay(table, (CHOOSE r \in result : TRUE).id, d)
        ELSE InsertDay(table, cid, d)

\* The constraints an INSERT or UPDATE of the day must meet: FK_weather_data_city
\* and the range of the DECIMAL(5,2) columns.
DayStorable(city_table, cid, d) ==
    /\ \E c \in city_table : c.id = cid
    /\ \A v \in {d.temperature, d.feels_like, d.temperature_min, d.temperature_max,
                 d.wind_speed} : Abs(v) < 1000 * Scale

----------------------------------------------------------------------------
(* Period Aggregator: calculate_weather_stats *)

\* periods: (period_days, start_date) for the last 7 and the last 30 days
periods(now) == << <<7, now - 7>>, <<30, now - 30>> >>

\* A variant whose window leaves its first day out
WindowRows_OpenStart(table, cid, start, now) ==
    {r \in table : r.city_id = cid /\ r.date > start /\ r.date <= now}

\* FROM weather_data WHERE city_id = %s AND date BETWEEN %s AND %s
WindowRows(table, cid, start, now) ==
    {r \in table : r.city_id = cid /\ r.date >= start /\ r.date <= now}

RECURSIVE SumField(_, _)
SumField(rows, field) ==
    IF rows = {} THEN 0
    ELSE LET r == CHOOSE x \in rows : TRUE
         IN  r[field] + SumField(rows \ {r}, field)

RECURSIVE SumNullable(_, _)
SumNullable(rows, field) ==
    IF rows = {} THEN 0
    ELSE LET r == CHOOSE x \in rows : TRUE
         IN  r[field][1] + SumNullable(rows \ {r}, field)

\* AVG of a DECIMAL(5,2) column as the DECIMAL(5,2) column avg_* keeps it: the
\* quotient rounded to hundredths, a half going away from zero.
AvgDecimal(sum, n) ==
    IF sum >= 0 THEN (2 * sum + n) \div (2 * n)
    ELSE -((2 * (-sum) + n) \div (2 * n))

\* AVG of an INT column: an INT, the quotient truncated.
AvgInt(sum, n) == TruncDiv(sum, n)

\* AVG, MIN and MAX of a nullable INT column over rows: NULLs are left out, and
\* the three are NULL when no row has a value.
NullableStats(rows, field) ==
    LET have == {r \in rows : r[field] # None}
        vals == {r[field][1] : r \in have}
    IN  IF have = {} THEN [avg |-> None, min |-> None, max |-> None]
        ELSE [avg |-> Some(AvgInt(SumNullable(have, field), Cardinality(have))),
              min |-> Some(SetMin(vals)), max |-> Some(SetMax(vals))]

\* The row of the SELECT AVG(...), MIN(...), MAX(...) query as the code uses it:
\* None when stats[0] is NULL.
PeriodStats(table, cid, start, now) ==
    LET rows == WindowRows(table, cid, start, now)
        n == Cardinality(rows)
        hum == NullableStats(rows, "humidity")
        prs == NullableStats(rows, "pressure")
    IN  IF rows = {} THEN None
        ELSE Some(
          [avg_temperature |-> AvgDecimal(SumField(rows, "temperature"), n),
           min_temperature |-> SetMin({r.temperature_min : r \in rows}),
           max_temperature |-> SetMax({r.temperature_max : r \in rows}),
           avg_humidity |-> hum.avg, min_humidity |-> hum.min, max_humidity |-> hum.max,
           avg_wind_speed |-> AvgDecimal(SumField(rows, "wind_speed"), n),
           min_wind_speed |-> SetMin({r.wind_speed : r \in rows}),
           max_wind_speed |-> SetMax({r.wind_speed : r \in rows}),
           avg_pressure |-> prs.avg, min_pressure |-> prs.min, max_pressure |-> prs.max])

\* COUNT(*) ... GROUP BY weather_condition
ConditionCount(rows, c) == Cardinality({r \in rows : r.weather_condition = c})

\* A variant ordered by count ascending
DominantConditions_Ascending(table, cid, start, now) ==
    LET rows == WindowRows(table, cid, start, now)
        conds == {r.weather_condition : r \in rows}
    IN  IF rows = {} THEN {"Unknown"}
        ELSE {c \in conds : \A o \in conds : ConditionCount(rows, o) >= ConditionCount(rows, c)}

\* What "SELECT TOP 1 weather_condition ... ORDER BY count DESC" can return: a
\* condition no other outnumbers (the order among equal counts is the engine's);
\* "Unknown" stands for condition_result being None.
DominantConditions(table, cid, start, now) ==
    LET rows == WindowRows(table, cid, start, now)
        conds == {r.weather_condition : r \in rows}
    IN  IF rows = {} THEN {"Unknown"}
        ELSE {c \in conds : \A o \in conds : ConditionCount(rows, o) <= ConditionCount(rows, c)}

\* SELECT id FROM weather_stats WHERE city_id = %s AND stat_date = %s AND period_days = %s
SelectStat(table, cid, now, period_days) ==
    {r \in table : r.city_id = cid /\ r.stat_date = now /\ r.period_days = period_days}

StatRow(id, cid, now, period_days, s, dominant_condition) ==
    [id |-> id, city_id |-> cid, stat_date |-> now, period_days |-> period_days,
     avg_temperature |-> s.avg_temperature, min_temperature |-> s.min_temperature,
     max_temperature |-> s.max_temperature,
     avg_humidity |-> s.avg_humidity, min_humidity |-> s.min_humidity,
     max_humidity |-> s.max_humidity,
     avg_wind_speed |-> s.avg_wind_speed, min_wind_speed |-> s.min_wind_speed,
     max_wind_speed |-> s.max_wind_speed,
     avg_pressure |-> s.avg_pressure, min_pressure |-> s.min_pressure,
     max_pressure |-> s.max_pressure,
     dominant_condition |-> dominant_condition]

\* A variant that inserts without looking the key up
UpsertStat_InsertOnly(table, cid, now, period_days, s, dominant_condition) ==
    table \cup {StatRow(NextId(table), cid, now, period_days, s, dominant_condition)}

\* "if result: UPDATE weather_stats ... WHERE id = %s  else: INSERT INTO weather_stats"
UpsertStat(table, cid, now, period_days, s, dominant_condition) ==
    LET result == SelectStat(table, cid, now, period_days)
    IN  IF result # {}
        THEN LET id == (CHOOSE r \in result : TRUE).id
             IN  {IF r.id = id
                  THEN StatRow(r.id, r.city_id, r.stat_date, r.period_days, s, dominant_condition)
                  ELSE r : r \in table}
        ELSE table \cup {StatRow(NextId(table), cid, now, period_days, s, dominant_condition)}

\* One pass of "for period_days, start_date in periods": the weather_stats table
\* after it.  dominant is the condition the TOP 1 query returned.
PeriodPass(stats_table, data_table, cid, now, period, dominant) ==
    LET stats == PeriodStats(data_table, cid, period[2], now)
    IN  IF stats = None THEN stats_table
        ELSE UpsertStat(stats_table, cid, now, period[1], stats[1], dominant)

\* A variant that leaves the loop at the first period without rows
RECURSIVE PeriodLoop_StopsAtGap(_, _, _, _, _, _)
PeriodLoop_StopsAtGap(stats_table, data_table, cid, now, k, dominant) ==
    IF k > Len(periods(now)) THEN stats_table
    ELSE IF PeriodStats(data_table, cid, periods(now)[k][2], now) = None THEN stats_table
    ELSE PeriodLoop_StopsAtGap(PeriodPass(stats_table, data_table, cid, now, periods(now)[k],
                               dominant[periods(now)[k][1]]),
                    data_table, cid, now, k + 1, dominant)

RECURSIVE PeriodLoop(_, _, _, _, _, _)
PeriodLoop(stats_table, data_table, cid, now, k, dominant) ==
    IF k > Len(periods(now)) THEN stats_table
    ELSE PeriodLoop(PeriodPass(stats_table, data_table, cid, now, periods(now)[k],
                               dominant[periods(now)[k][1]]),
                    data_table, cid, now, k + 1, dominant)

\* The loop when a statement of its pass number raised raises: the passes before
\* it are done, the pass itself writes nothing, and no later pass begins
RECURSIVE PeriodLoopRaising(_, _, _, _, _, _, _)
PeriodLoopRaising(stats_table, data_table, cid, now, k, raised, dominant) ==
    IF k >= raised THEN stats_table
    ELSE PeriodLoopRaising(PeriodPass(stats_table, data_table, cid, now, periods(now)[k],
                                      dominant[periods(now)[k][1]]),
                           data_table, cid, now, k + 1, raised, dominant)

\* The function when a statement of pass number raised raises: "except Exception
\* as e: ... return False".  began are the periods whose pass began.
calculate_weather_stats_raising(stats_table, data_table, cid, now, raised, dominant) ==
    [table |-> PeriodLoopRaising(stats_table, data_table, cid, now, 1, raised, dominant),
     ret |-> FALSE,
     began |-> {periods(now)[k][1] : k \in 1..raised}]

\* The function with no statement failing: the table it leaves and its return
\* value.  dominant[p] is what the TOP 1 query of period p returned.
calculate_weather_stats(stats_table, data_table, cid, now, dominant) ==
    [table |-> PeriodLoop(stats_table, data_table, cid, now, 1, dominant),
     ret |-> TRUE]

\* The answers the TOP 1 queries of a call can give
DominantAnswers(data_table, cid, now) ==
    {f \in [{periods(now)[k][1] : k \in 1..Len(periods(now))} ->
              {"Clear", "Clouds", "Rain", "Snow", "Thunderstorm", "Heavy Rain",
               "Precipitation", "Unknown"}] :
        \A k \in 1..Len(periods(now)) :
            f[periods(now)[k][1]] \in DominantConditions(data_table, cid, periods(now)[k][2], now)}

----------------------------------------------------------------------------
(* The batch: main() of collect_weather_data.py *)

MaxRuns == 2

\* the last date the clock reaches (it starts at 0)
MaxToday == 1

\* two of the ten cities, one in each hemisphere
cities_to_collect == <<"Tel Aviv", "Sydney">>

\* What get_city_coordinates(city_name) can return: None (no match, or the
\* request failed) or the first match.
GeocodeResults(city_name) ==
    {None,
     Some(IF city_name = "Tel Aviv"
          THEN [name |-> "Tel Aviv", country |-> "Israel", latitude |-> 32, longitude |-> 35]
          ELSE [name |-> "Sydney", country |-> "Australia", latitude |-> -34, longitude |-> 151])}

\* Raw days of the archive source: every field reported; only the mandatory
\* temperatures reported (with rain); the temperatures not reported.
RawFull ==
    [temperature_2m_mean |-> Some(2000), temperature_2m_min |-> Some(1500),
     temperature_2m_max |-> Some(2500),
     apparent_temperature_max |-> Some(2600), apparent_temperature_min |-> Some(1400),
     precipitation_sum |-> Some(0), rain_sum |-> Some(0), snowfall_sum |-> Some(0),
     windspeed_10m_max |-> Some(300), winddirection_10m_dominant |-> Some(180),
     relative_humidity_2m_max |-> Some(8000), relative_humidity_2m_min |-> Some(4100),
     pressure_msl_max |-> Some(101550), pressure_msl_min |-> Some(101000)]

RawBare ==
    [temperature_2m_mean |-> Some(1000), temperature_2m_min |-> Some(500),
     temperature_2m_max |-> Some(1200),
     apparent_temperature_max |-> None, apparent_temperature_min |-> Some(400),
     precipitation_sum |-> Some(500), rain_sum |-> Some(500), snowfall_sum |-> None,
     windspeed_10m_max |-> None, winddirection_10m_dominant |-> None,
     relative_humidity_2m_max |-> Some(8000), relative_humidity_2m_min |-> None,
     pressure_msl_max |-> None, pressure_msl_min |-> None]

RawMissing == [RawFull EXCEPT !.temperature_2m_mean = None]

\* a day whose mean temperature does not fit DECIMAL(5,2)
RawHuge == [RawFull EXCEPT !.temperature_2m_mean = Some(1000 * Scale)]

DateSeq(start, end) == [i \in 1..(end - start + 1) |-> start + i - 1]

\* The dates the archive source reports in the batch's runs: the ends of the
\* range and the two days around the start of the 7-day window
ReportedDates(start, end) == <<start, end - 8, end - 7, end>>

\* The answers of the archive source the batch is run against: a failure; no
\* daily series; every reported day in full; the first day not storable, the
\* next bare and the last week without temperatures (the archive lags behind
\* today).
ArchiveResponses(start, end) ==
    {[kind |-> "error", time |-> <<>>, rows |-> <<>>],
     [kind |-> "nodaily", time |-> <<>>, rows |-> <<>>],
     [kind |-> "daily", time |-> ReportedDates(start, end),
      rows |-> <<RawFull, RawFull, RawFull, RawFull>>],
     [kind |-> "daily", time |-> ReportedDates(start, end),
      rows |-> <<RawHuge, RawBare, RawMissing, RawMissing>>]}

\* The random draws the batch is run against: the same draws on every day
SteadyDraws ==
    [first |-> 0, walk |-> 0, dmin |-> 200, dmax |-> 200, feels |-> 0, hum |-> 0,
     press |-> 0, wind |-> 500, dir |-> 90, cond |-> "Clouds", desc |-> "overcast"]

BatchTapes(start, end) == {[d \in start..end |-> SteadyDraws]}

\* datetime.datetime.now().month when the generator is called: a winter or a summer month
Months == {1, 7}

NoCall == [fn |-> "none"]

NoOutcome == [dates |-> {}, stats |-> FALSE]

FreshRun == [k \in 1..Len(cities_to_collect) |-> NoOutcome]

\* The rows of a table that belong to the k-th city of the batch
RowsOfCity(k, table, city_table) ==
    {r \in table : \E c \in city_table :
        c.id = r.city_id /\ c.name = cities_to_collect[k]}

\* Per city, the number of rows of the two tables: as committed, and as the
\* batch's connection sees them (what Step 3 counts)
RowCounts(seen_data, seen_stats, durable) ==
    [data |-> [k \in 1..Len(cities_to_collect) |->
                 Cardinality(RowsOfCity(k, durable.weather_data, durable.cities))],
     stats |-> [k \in 1..Len(cities_to_collect) |->
                 Cardinality(RowsOfCity(k, durable.weather_stats, durable.cities))],
     seen_data |-> [k \in 1..Len(cities_to_collect) |->
                 Cardinality(RowsOfCity(k, seen_data, durable.cities))],
     seen_stats |-> [k \in 1..Len(cities_to_collect) |->
                 Cardinality(RowsOfCity(k, seen_stats, durable.cities))]]

NoPrevRun == [valid |-> FALSE, sig |-> FreshRun, day |-> 0,
              counts |-> RowCounts({}, {}, [cities |-> {}, weather_data |-> {},
                                            weather_stats |-> {}])]

Tables == [cities |-> cities, weather_data |-> weather_data, weather_stats |-> weather_stats]

\* Before the first run: the tables as create_tables.py leaves them
InitBatch ==
    /\ today = 0
    /\ cities = {}
    /\ weather_data = {}
    /\ weather_stats = {}
    /\ committed = [cities |-> {}, weather_data |-> {}, weather_stats |-> {}]
    /\ pc = "idle"
    /\ city_idx = 1
    /\ city_info = None
    /\ city_id = 0
    /\ end_date = 0
    /\ start_date = 0
    /\ source_answer = "none"
    /\ daily_list = <<>>
    /\ day_idx = 1
    /\ data_inserted = 0
    /\ runs = 0
    /\ cur_run = FreshRun
    /\ prev_run = NoPrevRun
    /\ connected = TRUE
    /\ attempted = {}

Init == InitBatch /\ call = NoCall

\* pymssql.connect and the date range of the run
Connect ==
    /\ pc = "idle"
    /\ runs < MaxRuns
    /\ runs' = runs + 1
    /\ cities' = committed.cities
    /\ weather_data' = committed.weather_data
    /\ weather_stats' = committed.weather_stats
    /\ end_date' = today
    /\ start_date' = today - 30
    /\ city_idx' = 1
    /\ pc' = "geocode"
    /\ cur_run' = FreshRun
    /\ connected' = TRUE
    /\ attempted' = {}
    /\ UNCHANGED <<source_answer, today, committed, city_info, city_id, daily_list, day_idx,
                   data_inserted, prev_run, call>>

\* "continue", or the end of the pass for a city: the next city, or Step 3
NextCity ==
    IF city_idx < Len(cities_to_collect)
    THEN city_idx' = city_idx + 1 /\ pc' = "geocode"
    ELSE city_idx' = city_idx /\ pc' = "verify"

\* A variant that ends the batch
GeocodeFailed_EndsBatch ==
    /\ pc = "geocode"
    /\ None \in GeocodeResults(cities_to_collect[city_idx])
    /\ pc' = "verify"
    /\ UNCHANGED <<source_answer, today, cities, weather_data, weather_stats, committed, city_info,
                   city_id, end_date, start_date, daily_list, day_idx, data_inserted,
                   runs, cur_run, prev_run, call, connected, attempted, city_idx>>

\* get_city_coordinates returned None: "Skipping..."
GeocodeFailed ==
    /\ pc = "geocode"
    /\ None \in GeocodeResults(cities_to_collect[city_idx])
    /\ NextCity
    /\ UNCHANGED <<source_answer, today, cities, weather_data, weather_stats, committed, city_info,
                   city_id, end_date, start_date, daily_list, day_idx, data_inserted,
                   runs, cur_run, prev_run, call, connected, attempted>>

GeocodeFound ==
    /\ pc = "geocode"
    /\ \E result \in GeocodeResults(cities_to_collect[city_idx]) \ {None} :
           city_info' = result
    /\ pc' = "resolve"
    /\ UNCHANGED <<source_answer, today, cities, weather_data, weather_stats, committed, city_idx,
                   city_id, end_date, start_date, daily_list, day_idx, data_inserted,
                   runs, cur_run, prev_run, call, connected, attempted>>

\* A variant that inserts without looking the place up
ResolveCity_InsertOnly ==
    /\ pc = "resolve"
    /\ connected
    /\ cities' = InsertCity(cities, city_info[1])
    /\ committed' = [Tables EXCEPT !.cities = cities']
    /\ city_id' = NextId(cities)
    /\ pc' = "fetch"
    /\ UNCHANGED <<source_answer, today, weather_data, weather_stats, city_idx, city_info, end_date,
                   start_date, daily_list, day_idx, data_inserted, runs,
                   cur_run, prev_run, call, connected, attempted>>

\* "Check if city already exists in the database": the id of the row, or insert,
\* commit and read the id back
ResolveCity ==
    /\ pc = "resolve"
    /\ connected
    /\ LET info == city_info[1]
           result == SelectCity(cities, info.name, info.country)
       IN  IF result # {}
           THEN /\ city_id' = (CHOOSE r \in result : TRUE).id
                /\ UNCHANGED <<cities, committed>>
           ELSE /\ cities' = InsertCity(cities, info)
                /\ committed' = [Tables EXCEPT !.cities = cities']
                /\ city_id' = (CHOOSE r \in SelectCity(cities', info.name, info.country) : TRUE).id
    /\ pc' = "fetch"
    /\ UNCHANGED <<source_answer, today, weather_data, weather_stats, city_idx, city_info, end_date,
                   start_date, daily_list, day_idx, data_inserted, runs,
                   cur_run, prev_run, call, connected, attempted>>

\* A variant that runs the aggregation of a location whose series is empty
FetchWeather_AggregatesEmpty ==
    /\ pc = "fetch"
    /\ \E response \in ArchiveResponses(start_date, end_date),
          tape \in BatchTapes(start_date, end_date), current_month \in Months :
         LET got == get_historical_weather_data(response, start_date, end_date,
                        city_info[1].latitude, current_month, tape, SteadyDraws.dir)
         IN  /\ source_answer' = response.kind
             /\ daily_list' = got
             /\ IF got = <<>>
                THEN pc' = "stats" /\ UNCHANGED <<day_idx, data_inserted, city_idx>>
                ELSE pc' = "write" /\ day_idx' = 1 /\ data_inserted' = 0
                     /\ city_idx' = city_idx
    /\ UNCHANGED <<today, cities, weather_data, weather_stats, committed, city_info,
                   city_id, end_date, start_date, runs, cur_run, prev_run, call, connected,
                   attempted>>

\* get_historical_weather_data, and "if not weather_data: ... continue"
FetchWeather ==
    /\ pc = "fetch"
    /\ \E response \in ArchiveResponses(start_date, end_date),
          tape \in BatchTapes(start_date, end_date), current_month \in Months :
         LET got == get_historical_weather_data(response, start_date, end_date,
                        city_info[1].latitude, current_month, tape, SteadyDraws.dir)
         IN  /\ source_answer' = response.kind
             /\ daily_list' = got
             /\ IF got = <<>>
                THEN NextCity /\ UNCHANGED <<day_idx, data_inserted>>
                ELSE pc' = "write" /\ day_idx' = 1 /\ data_inserted' = 0
                     /\ city_idx' = city_idx
    /\ UNCHANGED <<today, cities, weather_data, weather_stats, committed, city_info,
                   city_id, end_date, start_date, runs, cur_run, prev_run, call, connected,
                   attempted>>

\* The end of one pass of "for daily_data in weather_data"
\* A variant that leaves the loop before the last day
NextDay_LeavesBeforeLast ==
    IF day_idx + 1 < Len(daily_list)
    THEN day_idx' = day_idx + 1 /\ pc' = "write"
    ELSE day_idx' = day_idx /\ pc' = "stats"

NextDay ==
    IF day_idx < Len(daily_list)
    THEN day_idx' = day_idx + 1 /\ pc' = "write"
    ELSE day_idx' = day_idx /\ pc' = "stats"

\* One pass of "for daily_data in weather_data" with no statement failing: the
\* upsert, conn.commit() and the count
WriteDay ==
    /\ pc = "write"
    /\ connected
    /\ LET d == daily_list[day_idx]
       IN  /\ DayStorable(cities, city_id, d)
           /\ weather_data' = UpsertDay(weather_data, city_id, d)
           /\ committed' = [Tables EXCEPT !.weather_data = weather_data']
           /\ data_inserted' = data_inserted + 1
           /\ cur_run' = [cur_run EXCEPT ![city_idx].dates = @ \cup {d.date}]
    /\ NextDay
    /\ UNCHANGED <<source_answer, today, cities, weather_stats, city_idx, city_info, city_id, end_date,
                   start_date, daily_list, runs, prev_run, call, connected, attempted>>

\* A variant that gives the location up at the first day that fails
WriteDayFails_EndsLocation ==
    /\ pc = "write"
    /\ ~connected \/ ~DayStorable(cities, city_id, daily_list[day_idx])
    /\ pc' = "stats"
    /\ UNCHANGED <<source_answer, today, cities, weather_data, weather_stats, committed, city_idx,
                   city_info, city_id, end_date, start_date, daily_list, data_inserted,
                   runs, cur_run, prev_run, call, connected, attempted, day_idx>>

\* One pass in which a statement raises (the day cannot be stored): "except
\* Exception", the day is skipped
WriteDayFails ==
    /\ pc = "write"
    /\ ~connected \/ ~DayStorable(cities, city_id, daily_list[day_idx])
    /\ NextDay
    /\ UNCHANGED <<source_answer, today, cities, weather_data, weather_stats, committed, city_idx,
                   city_info, city_id, end_date, start_date, daily_list, data_inserted,
                   runs, cur_run, prev_run, call, connected, attempted>>

\* calculate_weather_stats(cursor, city_id): nothing is committed here
CalculateStats ==
    /\ pc = "stats"
    /\ connected
    /\ attempted' = {periods(today)[k][1] : k \in 1..Len(periods(today))}
    /\ \E dominant \in DominantAnswers(weather_data, city_id, today) :
         LET done == calculate_weather_stats(weather_stats, weather_data, city_id,
                                             today, dominant)
         IN  /\ weather_stats' = done.table
             /\ cur_run' = [cur_run EXCEPT ![city_idx].stats = done.ret]
    /\ NextCity
    /\ UNCHANGED <<source_answer, today, cities, weather_data, committed, city_info, city_id, end_date,
                   start_date, daily_list, day_idx, data_inserted, runs, prev_run, call,
                   connected>>

\* Step 3 and conn.close(): the counts are read, and what was not committed is
\* rolled back with the connection
VerifyAndClose ==
    /\ pc = "verify"
    /\ connected
    /\ prev_run' = [valid |-> TRUE, sig |-> cur_run, day |-> end_date,
                    counts |-> RowCounts(weather_data, weather_stats, committed)]
    /\ cities' = committed.cities
    /\ weather_data' = committed.weather_data
    /\ weather_stats' = committed.weather_stats
    /\ pc' = "idle"
    /\ UNCHANGED <<source_answer, today, committed, city_idx, city_info, city_id, end_date, start_date,
                   daily_list, day_idx, data_inserted, runs, cur_run, call, connected, attempted>>

\* Midnight passes.  The clock is read by Connect and by CalculateStats only, so
\* a midnight at any other point is the same as one just before the next of them.
Tick ==
    /\ pc \in {"idle", "stats"}
    /\ today < MaxToday
    /\ today' = today + 1
    /\ UNCHANGED <<source_answer, cities, weather_data, weather_stats, committed, pc, city_idx,
                   city_info, city_id, end_date, start_date, daily_list, day_idx,
                   data_inserted, runs, cur_run, prev_run, call, connected, attempted>>

\* The connection is lost.  The loss shows at the next statement sent to the
\* server, so it is taken just before one: a loss while geocoding or fetching
\* is a loss at the statement that follows.
LoseConnection ==
    /\ pc \in {"resolve", "write", "stats", "verify"}
    /\ connected
    /\ connected' = FALSE
    /\ UNCHANGED <<today, cities, weather_data, weather_stats, committed, pc, city_idx,
                   city_info, city_id, end_date, start_date, source_answer, daily_list,
                   day_idx, data_inserted, runs, cur_run, prev_run, attempted, call>>

\* The statements of the resolve step raise: "except Exception as e: print(f"Error
\* processing city: {e}"); continue"
ResolveCityFails ==
    /\ pc = "resolve"
    /\ ~connected
    /\ NextCity
    /\ UNCHANGED <<today, cities, weather_data, weather_stats, committed, city_info,
                   city_id, end_date, start_date, source_answer, daily_list, day_idx,
                   data_inserted, runs, cur_run, prev_run, connected, attempted, call>>

\* calculate_weather_stats with a statement raising in one of its passes: in the
\* first when the connection is lost, in any when the server refuses a statement
CalculateStatsFails ==
    /\ pc = "stats"
    /\ \E raised \in 1..Len(periods(today)) :
         /\ ~connected => raised = 1
         /\ \E dominant \in DominantAnswers(weather_data, city_id, today) :
              LET done == calculate_weather_stats_raising(weather_stats, weather_data,
                                                          city_id, today, raised, dominant)
              IN  /\ weather_stats' = done.table
                  /\ cur_run' = [cur_run EXCEPT ![city_idx].stats = done.ret]
                  /\ attempted' = done.began
    /\ NextCity
    /\ UNCHANGED <<source_answer, today, cities, weather_data, committed, city_info, city_id,
                   end_date, start_date, daily_list, day_idx, data_inserted, runs, prev_run,
                   call, connected>>

\* Step 3 raises: the outer "except Exception as e: ... sys.exit(1)".  What was
\* not committed is lost with the connection.
VerifyFails ==
    /\ pc = "verify"
    /\ ~connected
    /\ cities' = committed.cities
    /\ weather_data' = committed.weather_data
    /\ weather_stats' = committed.weather_stats
    /\ pc' = "idle"
    /\ UNCHANGED <<source_answer, today, committed, city_idx, city_info, city_id, end_date,
                   start_date, daily_list, day_idx, data_inserted, runs, cur_run, prev_run,
                   call, connected, attempted>>

\* The geocoding source reports the place a degree away from where it did
MovedResults(city_name) ==
    {Some([g[1] EXCEPT !.latitude = @ + 1, !.longitude = @ + 1]) :
        g \in GeocodeResults(city_name) \ {None}}

GeocodeMoved ==
    /\ pc = "geocode"
    /\ \E result \in MovedResults(cities_to_collect[city_idx]) : city_info' = result
    /\ pc' = "resolve"
    /\ UNCHANGED <<source_answer, today, cities, weather_data, weather_stats, committed, city_idx,
                   city_id, end_date, start_date, daily_list, day_idx, data_inserted,
                   runs, cur_run, prev_run, call, connected, attempted>>

\* The archive source has no daily series for the place
FetchNoDaily ==
    /\ pc = "fetch"
    /\ \E response \in {r \in ArchiveResponses(start_date, end_date) : r.kind = "nodaily"},
          tape \in BatchTapes(start_date, end_date), current_month \in Months :
         /\ source_answer' = response.kind
         /\ daily_list' = get_historical_weather_data(response, start_date, end_date,
                              city_info[1].latitude, current_month, tape, SteadyDraws.dir)
         /\ daily_list' = <<>>
    /\ NextCity
    /\ UNCHANGED <<today, cities, weather_data, weather_stats, committed, city_info,
                   city_id, end_date, start_date, day_idx, data_inserted, runs, cur_run,
                   prev_run, call, connected, attempted>>

\* The first run of the batch
ConnectOnce == runs = 0 /\ Connect

Next ==
    \/ Connect
    \/ GeocodeFailed
    \/ GeocodeFound
    \/ ResolveCity
    \/ FetchWeather
    \/ WriteDay
    \/ WriteDayFails
    \/ CalculateStats
    \/ VerifyAndClose

Spec == Init /\ [][Next]_vars

\* The batch with the clock running
NextClock == Next \/ Tick

\* One run of the batch in which statements can fail
NextFaults ==
    \/ ConnectOnce
    \/ GeocodeFailed
    \/ GeocodeFound
    \/ ResolveCity
    \/ ResolveCityFails
    \/ FetchWeather
    \/ WriteDay
    \/ WriteDayFails
    \/ CalculateStats
    \/ CalculateStatsFails
    \/ VerifyAndClose
    \/ VerifyFails
    \/ LoseConnection

SpecFaults == Init /\ [][NextFaults]_vars

\* Runs of the batch against a geocoding source that moves places and an
\* archive source without data
NextResolve ==
    \/ Connect
    \/ GeocodeFailed
    \/ GeocodeFound
    \/ GeocodeMoved
    \/ ResolveCity
    \/ FetchNoDaily
    \/ VerifyAndClose

SpecResolve == Init /\ [][NextResolve]_vars

SpecClock == Init /\ [][NextClock]_vars

----------------------------------------------------------------------------
(* The classification functions, called on their own *)

\* Amounts around the thresholds of the two functions, in hundredths
Amounts == {-Scale, 0, 1, 2 * Scale, 2 * Scale + 1, 3 * Scale, 5 * Scale, 5 * Scale + 1,
            10 * Scale, 10 * Scale + 1, 15 * Scale, 20 * Scale}

InitClassify ==
    /\ InitBatch
    /\ call \in {[fn |-> "classify", phase |-> "args", precipitation |-> p, rain |-> r,
                  snowfall |-> sn, condition |-> "", description |-> ""] :
                    p \in Amounts, r \in Amounts, sn \in Amounts}

Classify ==
    /\ call.fn = "classify"
    /\ call.phase = "args"
    /\ call' = [call EXCEPT
                  !.phase = "returned",
                  !.condition = get_weather_condition(call.precipitation, call.rain,
                                                      call.snowfall),
                  !.description = get_weather_description(call.precipitation, call.rain,
                                                          call.snowfall)]
    /\ UNCHANGED batch_vars

SpecClassify == InitClassify /\ [][Classify]_vars

----------------------------------------------------------------------------
(* The Synthetic Generator, called on its own, one pass of its loop at a time *)

\* the longest range generated or fetched is start .. start + MaxSpan
MaxSpan == 2

GenLatitudes == {-34, 32}

GenStarts == {0, 28}

\* Draws at the ends of their intervals and off the tenths
GenDraws ==
    {[SteadyDraws EXCEPT !.first = f[1], !.walk = f[2], !.dmin = a, !.dmax = b] :
        f \in {<<-500, -300>>, <<4, -4>>, <<500, 300>>},
        a \in {100, 500}, b \in {100, 496}}

InitGen ==
    /\ InitBatch
    /\ call \in {[fn |-> "generate_sample_weather_data", start |-> st, end |-> st + n,
                  latitude |-> lat, month |-> m, daily_data |-> <<>>,
                  current_date |-> st] :
                    st \in GenStarts, n \in 0..MaxSpan, lat \in GenLatitudes,
                    m \in Months}

\* One pass of "while current_date <= end_date"
GenDay ==
    /\ call.fn = "generate_sample_weather_data"
    /\ LoopContinues(call.current_date, call.end)
    /\ \E rnd \in GenDraws :
         LET base == base_temp(call.latitude, call.month)
         IN  /\ DrawsAllowed(call.daily_data, base, rnd)
             /\ call' = [call EXCEPT
                           !.daily_data = Append(@, SampleDay(call.daily_data,
                                                   call.current_date, base, rnd)),
                           !.current_date = @ + 1]
    /\ UNCHANGED batch_vars

SpecGen == InitGen /\ [][GenDay]_vars

----------------------------------------------------------------------------
(* The Synthetic Generator on long ranges: the walk of the mean temperature *)

\* the longest range walked is start .. start + MaxWalk
MaxWalk == 7

\* Sydney and the north pole
WalkLatitudes == {-34, 90}

\* Draws of the mean at the ends of their intervals and off the tenths, the
\* other draws steady
WalkDraws ==
    {[SteadyDraws EXCEPT !.first = f, !.walk = w] :
        f \in {-500, 500}, w \in {-300, 296, 300}}

NoLocals == [raw_mean |-> 0, temp_mean |-> 0, temp_min |-> 0, weights |-> <<>>]

InitWalk ==
    /\ InitBatch
    /\ call \in {[fn |-> "generate_sample_weather_data", start |-> 0, end |-> MaxWalk,
                  latitude |-> lat, month |-> m, daily_data |-> <<>>,
                  current_date |-> 0, locals |-> NoLocals] :
                    lat \in WalkLatitudes, m \in Months}

\* One pass of "while current_date <= end_date", its locals kept
WalkDay ==
    /\ call.fn = "generate_sample_weather_data"
    /\ LoopContinues(call.current_date, call.end)
    /\ \E rnd \in WalkDraws :
         LET base == base_temp(call.latitude, call.month)
         IN  /\ DrawsAllowed(call.daily_data, base, rnd)
             /\ call' = [call EXCEPT
                           !.daily_data = Append(@, SampleDay(call.daily_data,
                                                   call.current_date, base, rnd)),
                           !.current_date = @ + 1,
                           !.locals = PassLocals(call.daily_data, base, rnd)]
    /\ UNCHANGED batch_vars

SpecWalk == InitWalk /\ [][WalkDay]_vars

----------------------------------------------------------------------------
(* The Synthetic Generator on short ranges: the regime of the day's condition *)

\* the longest range is start .. start + MaxRegimeSpan
MaxRegimeSpan == 1

\* Draws that put the minimum at and just under 0 (from the base of latitude
\* 32 in winter) and the mean at and just over 30 (from the base of latitude
\* -34 in summer), with every condition
RegimeDraws ==
    {[SteadyDraws EXCEPT !.first = f, !.walk = w, !.dmin = a, !.cond = c,
                         !.desc = weather_descriptions[c][1]] :
        f \in {-500, -49, -45, 377, 380, 500}, w \in {-300, 300}, a \in {100, 500},
        c \in {weather_conditions[k] : k \in 1..Len(weather_conditions)}}

InitRegime ==
    /\ InitBatch
    /\ call \in {[fn |-> "generate_sample_weather_data", start |-> 0, end |-> n,
                  latitude |-> lat, month |-> m, daily_data |-> <<>>,
                  current_date |-> 0, locals |-> NoLocals] :
                    n \in 0..MaxRegimeSpan, lat \in GenLatitudes, m \in Months}

\* One pass of "while current_date <= end_date", its locals kept
RegimeDay ==
    /\ call.fn = "generate_sample_weather_data"
    /\ LoopContinues(call.current_date, call.end)
    /\ \E rnd \in RegimeDraws :
         LET base == base_temp(call.latitude, call.month)
         IN  /\ DrawsAllowed(call.daily_data, base, rnd)
             /\ call' = [call EXCEPT
                           !.daily_data = Append(@, SampleDay(call.daily_data,
                                                   call.current_date, base, rnd)),
                           !.current_date = @ + 1,
                           !.locals = PassLocals(call.daily_data, base, rnd)]
    /\ UNCHANGED batch_vars

SpecRegime == InitRegime /\ [][RegimeDay]_vars

----------------------------------------------------------------------------
(* The Historical Fetcher, called on its own *)

\* days without the minimum, without the maximum temperature
RawNoMin == [RawFull EXCEPT !.temperature_2m_min = None]

RawNoMax == [RawFull EXCEPT !.temperature_2m_max = None]

\* a calm, wet day: wind 0.0 from 0 degrees, apparent temperatures whose
\* average is not the mean temperature, humidity 100 and 99
RawCalm ==
    [RawFull EXCEPT !.apparent_temperature_max = Some(2750),
                    !.windspeed_10m_max = Some(0),
                    !.winddirection_10m_dominant = Some(0),
                    !.precipitation_sum = Some(1200), !.rain_sum = Some(1200),
                    !.relative_humidity_2m_max = Some(100 * Scale),
                    !.relative_humidity_2m_min = Some(99 * Scale)]

RawDays == {RawFull, RawBare, RawMissing, RawHuge, RawNoMin, RawNoMax, RawCalm}

\* The source's answers for a range: a failure, no daily series, or a daily
\* series reporting every date of the range with any of the raw days
FetchResponses(start, end) ==
    {[kind |-> "error", time |-> <<>>, rows |-> <<>>],
     [kind |-> "nodaily", time |-> <<>>, rows |-> <<>>]}
    \cup {[kind |-> "daily", time |-> DateSeq(start, end), rows |-> rows] :
             rows \in [1..(end - start + 1) -> RawDays]}

\* Tapes that draw the same on every day
FetchTapes(start, end) == {[d \in start..end |-> rnd] : rnd \in GenDraws}

InitFetch ==
    /\ InitBatch
    /\ call \in {[fn |-> "get_historical_weather_data", phase |-> "args",
                  response |-> resp, start |-> 0, end |-> n, latitude |-> lat,
                  ret |-> <<>>] :
                    n \in 0..MaxSpan, lat \in GenLatitudes,
                    resp \in UNION {FetchResponses(0, e) : e \in 0..MaxSpan}}
    /\ call.response.kind = "daily" => Len(call.response.time) = call.end + 1

FetchCall ==
    /\ call.fn = "get_historical_weather_data"
    /\ call.phase = "args"
    /\ \E tape \in FetchTapes(call.start, call.end), dir \in {0, 359}, m \in Months :
         /\ call' = [call EXCEPT
                       !.phase = "returned",
                       !.ret = get_historical_weather_data(call.response, call.start,
                                   call.end, call.latitude, m, tape, dir)]
    /\ UNCHANGED batch_vars

SpecFetch == InitFetch /\ [][FetchCall]_vars

----------------------------------------------------------------------------
(* The Aggregator, run on the days of one location as the batch writes them *)

\* the kinds of day a fixture series is made of
MaxFixture == 3

\* Dates below, on and above the ends of the two windows of day 0
FixtureDates == <<-31, -30, -8, -7, 0, 1>>

\* What the temperatures of a date are shifted by: the coldest day is before
\* the 30-day window, the hottest after the windows
Shift(date) ==
    CASE date = -31 -> -50 * Scale
      [] date = -8 -> -20 * Scale - 5
      [] date = 1 -> 30 * Scale
      [] OTHER -> 0

\* A day as FetchDay returns it: of kind 1 with no humidity and no pressure
FixtureRecord(k, date) ==
    [date |-> date,
     temperature |-> 10 * Scale * k + Shift(date),
     temperature_min |-> 10 * Scale * k + Shift(date) - 5 * Scale * k,
     temperature_max |-> 10 * Scale * k + Shift(date) + 2 * Scale * k + 50,
     feels_like |-> 10 * Scale * k + Shift(date),
     pressure |-> IF k = 1 THEN None ELSE Some(1000 + 13 * (k % 2)),
     humidity |-> IF k = 1 THEN None ELSE Some(45 + 3 * k + (date % 7)),
     wind_speed |-> 3 * Scale * k + 5 * (date % 3),
     wind_direction |-> 90,
     weather_condition |-> IF k = 1 THEN "Clear" ELSE IF k = 2 THEN "Rain" ELSE "Snow",
     weather_description |-> IF k = 1 THEN "Clear sky" ELSE IF k = 2 THEN "Moderate rain"
                             ELSE "Light snow"]

\* The series of the dates i.. of FixtureDates that pick gives a kind
RECURSIVE SeriesOf(_, _)
SeriesOf(pick, i) ==
    IF i > Len(FixtureDates) THEN <<>>
    ELSE IF pick[i] = 0 THEN SeriesOf(pick, i + 1)
    ELSE <<FixtureRecord(pick[i], FixtureDates[i])>> \o SeriesOf(pick, i + 1)

\* Ten days in a row: three clear, five of rain, two of snow
CountedSeries ==
    [i \in 1..10 |-> FixtureRecord(IF i <= 3 THEN 1 ELSE IF i <= 8 THEN 2 ELSE 3, i - 11)]

FixtureSeries ==
    ({SeriesOf(pick, 1) : pick \in [1..Len(FixtureDates) -> 0..MaxFixture]} \ {<<>>})
    \cup {CountedSeries}

\* The match get_city_coordinates finds for the k-th city of the batch
Geocoded(k) == CHOOSE g \in GeocodeResults(cities_to_collect[k]) : g # None

FixtureCities == InsertCity(InsertCity({}, Geocoded(1)[1]), Geocoded(2)[1])

\* A day of the other location inside both windows, colder and hotter than any fixture day
OtherCityDays ==
    {DayRow(1, 2, [FixtureRecord(2, 0) EXCEPT !.temperature = 0,
                                              !.temperature_min = -90 * Scale,
                                              !.temperature_max = 90 * Scale,
                                              !.weather_condition = "Fog"])}

StaleStats ==
    [avg_temperature |-> 1, min_temperature |-> 1, max_temperature |-> 1,
     avg_humidity |-> Some(1), min_humidity |-> Some(1), max_humidity |-> Some(1),
     avg_wind_speed |-> 1, min_wind_speed |-> 1, max_wind_speed |-> 1,
     avg_pressure |-> Some(1), min_pressure |-> Some(1), max_pressure |-> Some(1)]

\* Statistics an earlier run of the day left: the 7-day row of the location,
\* and the 30-day row of the other location
StaleRows == {StatRow(1, 1, 0, 7, StaleStats, "Stale"), StatRow(2, 2, 0, 30, StaleStats, "Stale")}

\* The batch after the fetch of its first location returned a fixture series
InitAgg ==
    /\ today = 0
    /\ cities = FixtureCities
    /\ weather_data = OtherCityDays
    /\ weather_stats = StaleRows
    /\ committed = [cities |-> FixtureCities, weather_data |-> OtherCityDays,
                    weather_stats |-> StaleRows]
    /\ pc = "write"
    /\ city_idx = 1
    /\ city_info = Geocoded(1)
    /\ city_id = 1
    /\ end_date = 0
    /\ start_date = -30
    /\ source_answer = "daily"
    /\ daily_list \in FixtureSeries
    /\ day_idx = 1
    /\ data_inserted = 0
    /\ runs = 1
    /\ cur_run = FreshRun
    /\ prev_run = NoPrevRun
    /\ connected = TRUE
    /\ attempted = {}
    /\ call = NoCall

NextAgg == WriteDay \/ CalculateStats

SpecAgg == InitAgg /\ [][NextAgg]_vars

----------------------------------------------------------------------------
(* Two calls of the Upsert Writer for one location and two dates, statement by *)
(* statement: each call is the SELECT, then the UPDATE or INSERT with its commit *)

WriterDates == <<-1, 0>>

\* What the table holds before the calls: a day of the other location, and
\* for each of the two dates either nothing or a row of an earlier run
WriterTables ==
    {UpsertDay(UpsertDay(OtherCityDays, 1, a), 1, b) :
        a \in {FixtureRecord(3, WriterDates[1]), FixtureRecord(3, -2)},
        b \in {FixtureRecord(3, WriterDates[2]), FixtureRecord(3, -2)}}
    \cup {OtherCityDays}

InitWriters ==
    /\ today = 0
    /\ cities = FixtureCities
    /\ weather_data \in WriterTables
    /\ weather_stats = StaleRows
    /\ committed = [cities |-> FixtureCities, weather_data |-> weather_data,
                    weather_stats |-> StaleRows]
    /\ pc = "write"
    /\ city_idx = 1
    /\ city_info = Geocoded(1)
    /\ city_id = 1
    /\ end_date = 0
    /\ start_date = -30
    /\ source_answer = "daily"
    /\ daily_list = <<>>
    /\ day_idx = 1
    /\ data_inserted = 0
    /\ runs = 1
    /\ cur_run = FreshRun
    /\ prev_run = NoPrevRun
    /\ connected = TRUE
    /\ attempted = {}
    /\ call \in {[fn |-> "upsert", before |-> weather_data, order |-> <<>>,
                  w |-> <<[pc |-> "select", d |-> FixtureRecord(k1, WriterDates[1]),
                           result |-> {}],
                          [pc |-> "select", d |-> FixtureRecord(k2, WriterDates[2]),
                           result |-> {}]>>] :
                    k1 \in 1..2, k2 \in 1..2}

\* SELECT id FROM weather_data WHERE city_id = %s AND date = %s; fetchone()
WriterSelect ==
    /\ call.fn = "upsert"
    /\ \E i \in 1..2 :
         /\ call.w[i].pc = "select"
         /\ call' = [call EXCEPT
                       !.w[i].pc = "store",
                       !.w[i].result = SelectDay(weather_data, city_id, call.w[i].d.date)]
    /\ UNCHANGED batch_vars

\* "if result:" UPDATE ... WHERE id, "else:" INSERT; conn.commit()
WriterStore ==
    /\ call.fn = "upsert"
    /\ \E i \in 1..2 :
         /\ call.w[i].pc = "store"
         /\ weather_data' =
               IF call.w[i].result # {}
               THEN UpdateDay(weather_data, (CHOOSE r \in call.w[i].result : TRUE).id,
                              call.w[i].d)
               ELSE InsertDay(weather_data, city_id, call.w[i].d)
         /\ committed' = [committed EXCEPT !.weather_data = weather_data']
         /\ call' = [call EXCEPT !.w[i].pc = "done", !.order = Append(@, i)]
    /\ UNCHANGED <<source_answer, today, cities, weather_stats, pc, city_idx, city_info,
                   city_id, end_date, start_date, daily_list, day_idx, data_inserted,
                   runs, cur_run, prev_run, connected, attempted>>

NextWriters == WriterSelect \/ WriterStore

SpecWriters == InitWriters /\ [][NextWriters]_vars

----------------------------------------------------------------------------
(* The read API: the endpoints of app.py, each on a connection of its own that *)
(* sees the committed tables                                                    *)

\* the requests served in a behaviour
MaxRequests == 2

\* a frosty day without apparent temperatures, wind and humidity minimum
RawFrost ==
    [RawBare EXCEPT !.temperature_2m_mean = Some(0), !.temperature_2m_min = Some(-500),
                    !.temperature_2m_max = Some(500)]

ApiRawDays == {RawFull, RawBare, RawCalm, RawFrost}

ApiDates == <<-1, 0>>

\* "for daily_data in weather_data" with no statement failing
RECURSIVE StoreSeries(_, _, _, _)
StoreSeries(table, cid, series, i) ==
    IF i > Len(series) THEN table
    ELSE StoreSeries(UpsertDay(table, cid, series[i]), cid, series, i + 1)

\* What a run of the batch leaves in storage for the first location, the
\* archive reporting the two dates with any of the raw days
ApiStorage ==
    {[cities |-> FixtureCities, weather_data |-> data,
      weather_stats |-> calculate_weather_stats({}, data, 1, 0, dominant).table] :
        data \in {StoreSeries({}, 1, FetchLoop(<<>>, 1, ApiDates, rows, dir), 1) :
                     rows \in [1..Len(ApiDates) -> ApiRawDays], dir \in {0, 359}},
        dominant \in {[p \in {7, 30} |-> c] : c \in {"Clear", "Rain"}}}

InitApi ==
    /\ today = 0
    /\ committed \in ApiStorage
    /\ \A p \in {7, 30} :
          \A st \in committed.weather_stats :
             st.period_days = p =>
                st.dominant_condition \in
                   DominantConditions(committed.weather_data, 1, 0 - p, 0)
    /\ cities = committed.cities
    /\ weather_data = committed.weather_data
    /\ weather_stats = committed.weather_stats
    /\ pc = "idle"
    /\ city_idx = 1
    /\ city_info = None
    /\ city_id = 0
    /\ end_date = 0
    /\ start_date = 0
    /\ source_answer = "none"
    /\ daily_list = <<>>
    /\ day_idx = 1
    /\ data_inserted = 0
    /\ runs = 0
    /\ cur_run = FreshRun
    /\ prev_run = NoPrevRun
    /\ connected = TRUE
    /\ attempted = {}
    /\ call = [fn |-> "none", served |-> 0]

\* "float(x) if x else None", "int(x) if x else None" on the value of a column
\* that holds a number: 0 and 0.00 are false
IfTruthy(x) == IF x # 0 THEN Some(x) ELSE None

\* the same on the value of a column that may hold NULL
IfTruthyNullable(x) == IF x # None /\ x[1] # 0 THEN x ELSE None

\* SELECT TOP (n) ... ORDER BY date DESC
RECURSIVE TopByDateDesc(_, _)
TopByDateDesc(rows, n) ==
    IF n <= 0 \/ rows = {} THEN <<>>
    ELSE LET r == CHOOSE x \in rows : \A y \in rows : y.date <= x.date
         IN  <<r>> \o TopByDateDesc(rows \ {r}, n - 1)

\* One entry of "weather_data" in the response of /weather/<city_id>
WeatherItem(row) ==
    [date |-> row.date,
     temperature |-> row.temperature,
     temperature_min |-> row.temperature_min,
     temperature_max |-> row.temperature_max,
     feels_like |-> IfTruthy(row.feels_like),
     pressure |-> IfTruthyNullable(row.pressure),
     humidity |-> IfTruthyNullable(row.humidity),
     wind_speed |-> IfTruthy(row.wind_speed),
     wind_direction |-> IfTruthy(row.wind_direction),
     weather_condition |-> row.weather_condition,
     weather_description |-> row.weather_description]

\* One entry of "stats" in the response of /stats/<city_id>
StatItem(row) ==
    [period_days |-> row.period_days,
     avg_temperature |-> IfTruthy(row.avg_temperature),
     min_temperature |-> IfTruthy(row.min_temperature),
     max_temperature |-> IfTruthy(row.max_temperature),
     avg_humidity |-> IfTruthyNullable(row.avg_humidity),
     min_humidity |-> IfTruthyNullable(row.min_humidity),
     max_humidity |-> IfTruthyNullable(row.max_humidity),
     avg_wind_speed |-> IfTruthy(row.avg_wind_speed),
     min_wind_speed |-> IfTruthy(row.min_wind_speed),
     max_wind_speed |-> IfTruthy(row.max_wind_speed),
     avg_pressure |-> IfTruthyNullable(row.avg_pressure),
     min_pressure |-> IfTruthyNullable(row.min_pressure),
     max_pressure |-> IfTruthyNullable(row.max_pressure),
     dominant_condition |-> row.dominant_condition,
     stat_date |-> row.stat_date]

CityItem(row) ==
    [id |-> row.id, name |-> row.name, country |-> row.country,
     latitude |-> row.latitude, longitude |-> row.longitude]

\* the ids and parameters requests are made with: a stored location with
\* days, one without, and an id that is not stored
ApiCityIds == {1, 2, 3}

ApiDays == {1, 7}

\* The response sent: nothing but the record of the call changes
Respond(fn, request, status, body) ==
    /\ call.served < MaxRequests
    /\ call' = [fn |-> fn, request |-> request, status |-> status, body |-> body,
                served |-> call.served + 1]
    /\ UNCHANGED batch_vars

\* GET /cities: the rows of cities (ORDER BY name; kept as a set here)
get_cities ==
    /\ call.served < MaxRequests
    /\ call' = [fn |-> "get_cities", request |-> None, status |-> 200,
                body |-> {CityItem(r) : r \in committed.cities},
                served |-> call.served + 1]
    /\ UNCHANGED batch_vars

\* GET /cities/<city_id>
get_city ==
    \E cid \in ApiCityIds :
        LET found == {r \in committed.cities : r.id = cid}
        IN  IF found = {}
            THEN Respond("get_city", cid, 404, {})
            ELSE Respond("get_city", cid, 200, {CityItem(r) : r \in found})

\* GET /weather/<city_id>?days=
get_weather ==
    \E cid \in ApiCityIds, days \in ApiDays :
        IF {r \in committed.cities : r.id = cid} = {}
        THEN Respond("get_weather", <<cid, days>>, 404, <<>>)
        ELSE LET top == TopByDateDesc({r \in committed.weather_data : r.city_id = cid}, days)
             IN  Respond("get_weather", <<cid, days>>, 200,
                         [i \in 1..Len(top) |-> WeatherItem(top[i])])

\* A variant that clears the statistics of the location it has answered with
get_stats_Clears ==
    \E cid \in ApiCityIds :
        /\ call.served < MaxRequests
        /\ call' = [fn |-> "get_stats", request |-> cid, status |-> 200,
                    body |-> {StatItem(r) : r \in {x \in committed.weather_stats :
                                                      x.city_id = cid}},
                    served |-> call.served + 1]
        /\ committed' = [committed EXCEPT
                            !.weather_stats = {x \in @ : x.city_id # cid}]
        /\ UNCHANGED <<source_answer, today, cities, weather_data, weather_stats, pc, city_idx,
                       city_info, city_id, end_date, start_date, daily_list, day_idx,
                       data_inserted, runs, cur_run, prev_run, connected, attempted>>

\* GET /stats/<city_id> (ORDER BY period_days; kept as a set here)
get_stats ==
    \E cid \in ApiCityIds :
        IF {r \in committed.cities : r.id = cid} = {}
        THEN Respond("get_stats", cid, 404, {})
        ELSE Respond("get_stats", cid, 200,
                     {StatItem(r) : r \in {x \in committed.weather_stats : x.city_id = cid}})

\* The rows TOP 1 ... JOIN cities ... WHERE period_days = %s ORDER BY field can
\* give: sign is 1 for DESC and -1 for ASC
TopStat(field, sign, period) ==
    LET joined == {st \in committed.weather_stats :
                      /\ st.period_days = period
                      /\ \E c \in committed.cities : c.id = st.city_id}
    IN  {st \in joined : \A other \in joined : sign * other[field] <= sign * st[field]}

TemperatureItem(st) ==
    LET c == CHOOSE x \in committed.cities : x.id = st.city_id
    IN  [id |-> c.id, name |-> c.name, country |-> c.country,
         avg_temperature |-> IfTruthy(st.avg_temperature),
         min_temperature |-> IfTruthy(st.min_temperature),
         max_temperature |-> IfTruthy(st.max_temperature)]

\* GET /hottest?period=
get_hottest ==
    \E period \in {7, 30} :
        IF TopStat("avg_temperature", 1, period) = {}
        THEN Respond("get_hottest", period, 404, {})
        ELSE \E st \in TopStat("avg_temperature", 1, period) :
                Respond("get_hottest", period, 200, {TemperatureItem(st)})

\* GET /coldest?period=
get_coldest ==
    \E period \in {7, 30} :
        IF TopStat("avg_temperature", -1, period) = {}
        THEN Respond("get_coldest", period, 404, {})
        ELSE \E st \in TopStat("avg_temperature", -1, period) :
                Respond("get_coldest", period, 200, {TemperatureItem(st)})

\* GET /windiest?period=
get_windiest ==
    \E period \in {7, 30} :
        IF TopStat("avg_wind_speed", 1, period) = {}
        THEN Respond("get_windiest", period, 404, {})
        ELSE \E st \in TopStat("avg_wind_speed", 1, period) :
                LET c == CHOOSE x \in committed.cities : x.id = st.city_id
                IN  Respond("get_windiest", period, 200,
                            {[id |-> c.id, name |-> c.name, country |-> c.country,
                              avg_wind_speed |-> IfTruthy(st.avg_wind_speed),
                              dominant_condition |-> st.dominant_condition]})

\* GET /: the list of the endpoints
home ==
    /\ call.served < MaxRequests
    /\ call' = [fn |-> "home", request |-> None, status |-> 200, body |-> {},
                served |-> call.served + 1]
    /\ UNCHANGED batch_vars

NextApi ==
    \/ home
    \/ get_cities
    \/ get_city
    \/ get_weather
    \/ get_stats
    \/ get_hottest
    \/ get_coldest
    \/ get_windiest

SpecApi == InitApi /\ [][NextApi]_vars

----------------------------------------------------------------------------
(* Properties of the batch *)

\* No two rows of weather_data share (city_id, date)
UniqueDayKeys(table) ==
    \A r1, r2 \in table : (r1.city_id = r2.city_id /\ r1.date = r2.date) => r1 = r2

\* No two rows of weather_stats share (city_id, stat_date, period_days)
UniqueStatKeys(table) ==
    \A r1, r2 \in table :
        (r1.city_id = r2.city_id /\ r1.stat_date = r2.stat_date
         /\ r1.period_days = r2.period_days) => r1 = r2

\* The fields of a weather_data row that the writer sets equal those of record d
RowHolds(r, d) ==
    /\ r.date = d.date
    /\ r.temperature = d.temperature
    /\ r.feels_like = d.feels_like
    /\ r.temperature_min = d.temperature_min
    /\ r.temperature_max = d.temperature_max
    /\ r.pressure = d.pressure
    /\ r.humidity = d.humidity
    /\ r.wind_speed = d.wind_speed
    /\ r.wind_direction = d.wind_direction
    /\ r.weather_condition = d.weather_condition
    /\ r.weather_description = d.weather_description

\* The k-th city was ingested by the run: its days were written and its
\* statistics computed
Ingested(sig, k) == sig[k].stats

\* A second run in a row, on the same day, has reached Step 3
SecondRunEnds ==
    /\ pc = "verify"
    /\ prev_run.valid
    /\ prev_run.day = end_date
    /\ today = end_date

NowCounts == RowCounts(weather_data, weather_stats, committed)

\* C1 as stated: when a location is ingested by two runs in a row on the same
\* day, the second run leaves its numbers of DayRecord and PeriodStat rows (as
\* Step 3 of the run counts them) as the first run left them.
C1_RowCountIdempotent ==
    SecondRunEnds =>
        \A k \in 1..Len(cities_to_collect) :
            (Ingested(prev_run.sig, k) /\ Ingested(cur_run, k)) =>
                /\ NowCounts.seen_data[k] = prev_run.counts.seen_data[k]
                /\ NowCounts.data[k] = prev_run.counts.data[k]
                /\ NowCounts.seen_stats[k] = prev_run.counts.seen_stats[k]

\* C1 amended: no key of either table ever has two rows; and when the second
\* run stores the same dates for a location as the first did, the location's
\* numbers of DayRecord and PeriodStat rows are those the first run left.
C1_RowCountIdempotentSameDates ==
    /\ UniqueDayKeys(weather_data) /\ UniqueDayKeys(committed.weather_data)
    /\ UniqueStatKeys(weather_stats) /\ UniqueStatKeys(committed.weather_stats)
    /\ SecondRunEnds =>
          \A k \in 1..Len(cities_to_collect) :
              (Ingested(cur_run, k) /\ cur_run[k] = prev_run.sig[k]) =>
                /\ NowCounts.seen_data[k] = prev_run.counts.seen_data[k]
                /\ NowCounts.data[k] = prev_run.counts.data[k]
                /\ NowCounts.seen_stats[k] = prev_run.counts.seen_stats[k]

\* C1 witness: a second run has ingested a location again, storing the dates
\* the first run stored, and rows of both tables were overwritten
C1_Witness ==
    /\ SecondRunEnds
    /\ \E k \in 1..Len(cities_to_collect) :
          /\ Ingested(cur_run, k) /\ cur_run[k] = prev_run.sig[k]
          /\ NowCounts.seen_data[k] > 1
          /\ NowCounts.seen_stats[k] = Len(periods(today))

\* C2: weather_data never holds two rows for one (city_id, date); and a pass of
\* the writer that succeeds leaves exactly one row for (city_id, date of the
\* record), holding the record's fields, whether or not a row was there before.
C2_UpsertLastWriteWins ==
    [][/\ UniqueDayKeys(weather_data')
       /\ (pc = "write" /\ data_inserted' = data_inserted + 1) =>
             LET d == daily_list[day_idx]
                 now == SelectDay(weather_data', city_id, d.date)
             IN  /\ Cardinality(now) = 1
                 /\ \A r \in now : RowHolds(r, d)
                 /\ committed'.weather_data = weather_data'
                 /\ \A r \in weather_data :
                        r.date # d.date \/ r.city_id # city_id => r \in weather_data'
      ]_vars

\* C2 witness: the writer has overwritten a row that an earlier run stored with
\* other values
C2_Witness ==
    /\ pc = "write"
    /\ prev_run.valid
    /\ day_idx = 2
    /\ data_inserted = 1
    /\ daily_list[1].date \in prev_run.sig[city_idx].dates
    /\ \E r \in SelectDay(weather_data, city_id, daily_list[1].date) :
           RowHolds(r, daily_list[1])
    /\ \E r \in SelectDay(weather_data, city_id, daily_list[2].date) :
           ~RowHolds(r, daily_list[2])

----------------------------------------------------------------------------
(* Properties of the Historical Fetcher *)

\* The series holds one record for every date of start..end, in order
CoversRange(series, start, end) ==
    /\ Len(series) = end - start + 1
    /\ \A i \in 1..Len(series) : series[i].date = start + i - 1

\* C3: when the request fails, the Fetcher returns a synthetic series with
\* exactly one record for every date of the requested range, both ends
\* included: the series is not empty and is as long as the span has days.
C3_ErrorGivesWholeRange ==
    (call.fn = "get_historical_weather_data" /\ call.phase = "returned"
        /\ call.response.kind = "error") =>
        /\ call.ret # <<>>
        /\ CoversRange(call.ret, call.start, call.end)

C3_Witness ==
    /\ call.fn = "get_historical_weather_data" /\ call.phase = "returned"
    /\ call.response.kind = "error"
    /\ call.end = call.start + MaxSpan
    /\ Len(call.ret) = MaxSpan + 1
    /\ call.ret[Len(call.ret)].date = call.end

FetchReturned ==
    /\ call.fn = "get_historical_weather_data" /\ call.phase = "returned"
    /\ call.response.kind = "daily"

MandatoryPresent(raw) ==
    /\ raw.temperature_2m_mean # None
    /\ raw.temperature_2m_min # None
    /\ raw.temperature_2m_max # None

\* The positions of the reported dates that have the three temperatures, in
\* the source's order
KeptIndices(response) ==
    SelectSeq([i \in 1..Len(response.time) |-> i],
              LAMBDA i : MandatoryPresent(response.rows[i]))

\* The source's values for a date it reports
RawOf(response, date) ==
    response.rows[CHOOSE i \in 1..Len(response.time) : response.time[i] = date]

\* C18: from a successful response with a daily series, the output holds
\* exactly the reported dates whose mean, min and max temperature are all
\* present, each once and in the source's order, with these temperatures; a
\* date lacking one of the three is dropped and no other date is.
C18_ExactlyTheCompleteDates ==
    FetchReturned =>
        LET kept == KeptIndices(call.response)
        IN  /\ Len(call.ret) = Len(kept)
            /\ \A j \in 1..Len(kept) :
                  LET raw == call.response.rows[kept[j]]
                  IN  /\ call.ret[j].date = call.response.time[kept[j]]
                      /\ call.ret[j].temperature = raw.temperature_2m_mean[1]
                      /\ call.ret[j].temperature_min = raw.temperature_2m_min[1]
                      /\ call.ret[j].temperature_max = raw.temperature_2m_max[1]
            /\ \A j, k \in 1..Len(call.ret) : j < k => call.ret[j].date < call.ret[k].date

\* a day without the mean is dropped, a day lacking only optional fields and
\* a full day after a day without the maximum are kept, in order
C18_Witness ==
    /\ FetchReturned
    /\ call.response.rows = <<RawBare, RawNoMax, RawFull>>
    /\ Len(call.ret) = 2
    /\ call.ret[1].date = call.response.time[1]
    /\ call.ret[2].date = call.response.time[3]

\* C19: in every record of the output, feels_like is the average of the
\* day's apparent maximum and minimum when both are reported and the mean
\* temperature otherwise; wind_speed is the reported one or 5.0; wind_direction
\* is the reported one or a whole number of 0..359; the day is classified with
\* 0 for each precipitation amount that is not reported.
C19_OptionalFieldsFallBack ==
    FetchReturned =>
        \A j \in 1..Len(call.ret) :
            LET rec == call.ret[j]
                raw == RawOf(call.response, rec.date)
                precipitation == IF raw.precipitation_sum = None THEN 0
                                 ELSE raw.precipitation_sum[1]
                rain == IF raw.rain_sum = None THEN 0 ELSE raw.rain_sum[1]
                snowfall == IF raw.snowfall_sum = None THEN 0 ELSE raw.snowfall_sum[1]
            IN  /\ IF raw.apparent_temperature_max # None /\ raw.apparent_temperature_min # None
                   THEN 2 * rec.feels_like =
                          raw.apparent_temperature_max[1] + raw.apparent_temperature_min[1]
                   ELSE rec.feels_like = raw.temperature_2m_mean[1]
                /\ IF raw.windspeed_10m_max = None
                   THEN rec.wind_speed = 5 * Scale
                   ELSE rec.wind_speed = raw.windspeed_10m_max[1]
                /\ IF raw.winddirection_10m_dominant = None
                   THEN rec.wind_direction \in 0..359
                   ELSE rec.wind_direction = raw.winddirection_10m_dominant[1]
                /\ rec.weather_condition = get_weather_condition(precipitation, rain, snowfall)
                /\ rec.weather_description =
                      get_weather_description(precipitation, rain, snowfall)

\* a day with one apparent temperature, no wind and no snowfall reported, then
\* a day with wind 0.0 from 0 degrees and an apparent average off the mean
C19_Witness ==
    /\ FetchReturned
    /\ call.response.rows = <<RawBare, RawCalm>>
    /\ Len(call.ret) = 2
    /\ call.ret[1].feels_like = call.ret[1].temperature
    /\ call.ret[1].wind_speed = 5 * Scale /\ call.ret[1].wind_direction = 359
    /\ call.ret[1].weather_condition = "Rain"
    /\ call.ret[2].feels_like = 2075 /\ call.ret[2].temperature = 2000
    /\ call.ret[2].wind_speed = 0 /\ call.ret[2].wind_direction = 0

\* v is the whole part of (max + min) / 2, the values being in hundredths
IsTruncatedAverage(v, max, min) ==
    /\ v \in Int
    /\ v * 2 * Scale <= max + min
    /\ max + min < (v + 1) * 2 * Scale

\* C20: in every record of the output, humidity is the truncated whole
\* average of the day's humidity maximum and minimum when both are reported
\* and absent otherwise; pressure likewise.
C20_HumidityPressureTruncated ==
    FetchReturned =>
        \A j \in 1..Len(call.ret) :
            LET rec == call.ret[j]
                raw == RawOf(call.response, rec.date)
            IN  /\ IF raw.relative_humidity_2m_max # None /\ raw.relative_humidity_2m_min # None
                   THEN /\ rec.humidity # None
                        /\ IsTruncatedAverage(rec.humidity[1], raw.relative_humidity_2m_max[1],
                                              raw.relative_humidity_2m_min[1])
                   ELSE rec.humidity = None
                /\ IF raw.pressure_msl_max # None /\ raw.pressure_msl_min # None
                   THEN /\ rec.pressure # None
                        /\ IsTruncatedAverage(rec.pressure[1], raw.pressure_msl_max[1],
                                              raw.pressure_msl_min[1])
                   ELSE rec.pressure = None

\* humidity 60 from 60.5 and 99 from 99.5, pressure 1012 from 1012.75, and a
\* day with only the humidity maximum reported
C20_Witness ==
    /\ FetchReturned
    /\ call.response.rows = <<RawFull, RawCalm, RawBare>>
    /\ Len(call.ret) = 3
    /\ call.ret[1].humidity = Some(60) /\ call.ret[1].pressure = Some(1012)
    /\ call.ret[2].humidity = Some(99)
    /\ call.ret[3].humidity = None /\ call.ret[3].pressure = None

----------------------------------------------------------------------------
(* Properties of the Synthetic Generator *)

\* C5: the generator returns exactly one record per date of start..end, in
\* increasing date order with no date missing or repeated, and every record
\* has temperature_min <= temperature <= temperature_max after the rounding.
C5_OneRecordPerDateInOrder ==
    call.fn = "generate_sample_weather_data" =>
        /\ \A i \in 1..Len(call.daily_data) :
               /\ call.daily_data[i].date = call.start + i - 1
               /\ call.daily_data[i].temperature_min <= call.daily_data[i].temperature
               /\ call.daily_data[i].temperature <= call.daily_data[i].temperature_max
        /\ \A i, j \in 1..Len(call.daily_data) :
               i < j => call.daily_data[i].date < call.daily_data[j].date
        /\ ~(call.current_date <= call.end) =>
               Len(call.daily_data) = call.end - call.start + 1

C5_Witness ==
    /\ call.fn = "generate_sample_weather_data"
    /\ call.current_date > call.end
    /\ Len(call.daily_data) = MaxSpan + 1
    /\ call.latitude < 0
    /\ \E i \in 1..Len(call.daily_data) :
           call.daily_data[i].temperature_min < call.daily_data[i].temperature
    /\ \E i \in 1..Len(call.daily_data) : call.daily_data[i].temperature % 10 = 0

\* C23: in a synthetic series every recorded mean temperature is within -30
\* and 50; the first day's mean as drawn is within temp_range / 2 = 5 degrees
\* of the base temperature of the latitude and season (and the recorded one
\* within the rounding of that); the recorded means of two consecutive days
\* differ by at most 3 degrees.
C23_MeanWalksWithinBounds ==
    call.fn = "generate_sample_weather_data" =>
        LET series == call.daily_data
            base == base_temp(call.latitude, call.month)
        IN  /\ \A i \in 1..Len(series) :
                  -30 * Scale <= series[i].temperature /\ series[i].temperature <= 50 * Scale
            /\ Len(series) = 1 =>
                  /\ 2 * Abs(call.locals.raw_mean - base) <= temp_range * Scale
                  /\ call.locals.temp_mean = call.locals.raw_mean
                  /\ 2 * Abs(series[1].temperature - base) <= temp_range * Scale + 10
            /\ \A i \in 1..(Len(series) - 1) :
                  Abs(series[i + 1].temperature - series[i].temperature) <= 3 * Scale

\* a series that climbed by 3 a day from its first day to 50 and was held there
C23_Witness ==
    /\ call.fn = "generate_sample_weather_data"
    /\ Len(call.daily_data) = MaxWalk + 1
    /\ call.locals.raw_mean > 50 * Scale
    /\ call.daily_data[Len(call.daily_data)].temperature = 50 * Scale
    /\ call.daily_data[1].temperature = RoundTenth(base_temp(call.latitude, call.month) + 500)
    /\ \A i \in 1..(Len(call.daily_data) - 2) :
          call.daily_data[i + 1].temperature = call.daily_data[i].temperature + 3 * Scale

\* C24: no synthetic record with a mean temperature above 30 has the
\* condition Snow; the weights favouring snow are those of a pass exactly when
\* its minimum temperature is below 0, whatever its mean is.
C24_NoSnowOnHotDays ==
    call.fn = "generate_sample_weather_data" =>
        /\ \A i \in 1..Len(call.daily_data) :
              call.daily_data[i].temperature > 30 * Scale =>
                  call.daily_data[i].weather_condition # "Snow"
        /\ call.daily_data # <<>> =>
              /\ call.locals.weights = <<2, 2, 1, 4, 1>> <=> call.locals.temp_min < 0
              /\ call.locals.temp_mean > 30 * Scale =>
                    /\ call.locals.temp_min >= 0
                    /\ call.locals.weights[4] = 0
                    /\ call.daily_data[Len(call.daily_data)].weather_condition # "Snow"

\* two hot days in a row, the first with a thunderstorm, under the weights
\* that give snow no chance
C24_Witness ==
    /\ call.fn = "generate_sample_weather_data"
    /\ Len(call.daily_data) = 2
    /\ call.daily_data[1].temperature > 30 * Scale
    /\ call.daily_data[1].weather_condition = "Thunderstorm"
    /\ call.locals.temp_mean > 30 * Scale
    /\ call.locals.weights = <<3, 3, 2, 0, 2>>

----------------------------------------------------------------------------
(* Properties of the classification *)

\* C6: the condition is decided by the first rule that matches: Snow if
\* snowfall > 0; Heavy Rain if rain > 10; Rain if 0 < rain <= 10; Precipitation
\* if precipitation > 0; else Clear.
C6_ConditionFirstMatch ==
    (call.fn = "classify" /\ call.phase = "returned") =>
        call.condition =
            CASE call.snowfall > 0 -> "Snow"
              [] call.snowfall <= 0 /\ call.rain > 10 * Scale -> "Heavy Rain"
              [] call.snowfall <= 0 /\ 0 < call.rain /\ call.rain <= 10 * Scale -> "Rain"
              [] call.snowfall <= 0 /\ call.rain <= 0 /\ call.precipitation > 0 ->
                     "Precipitation"
              [] OTHER -> "Clear"

\* the claim's four examples, of which this state is the last
C6_Witness ==
    /\ call.fn = "classify" /\ call.phase = "returned"
    /\ call.precipitation = 20 * Scale /\ call.rain = 15 * Scale /\ call.snowfall = 0
    /\ call.condition = "Heavy Rain"
    /\ get_weather_condition(0, 0, 0) = "Clear"
    /\ get_weather_condition(5 * Scale, 5 * Scale, 0) = "Rain"
    /\ get_weather_condition(0, 0, 3 * Scale) = "Snow"

\* C7: the description is decided by the first rule that matches: Heavy snow
\* if snowfall > 5; Light snow if snowfall > 0; Heavy rain if rain > 10;
\* Moderate rain if rain > 2; Light rain if rain > 0; Precipitation if
\* precipitation > 0; otherwise Clear sky.
C7_DescriptionFirstMatch ==
    (call.fn = "classify" /\ call.phase = "returned") =>
        call.description =
            IF call.snowfall > 5 * Scale THEN "Heavy snow"
            ELSE IF call.snowfall > 0 THEN "Light snow"
            ELSE IF call.rain > 10 * Scale THEN "Heavy rain"
            ELSE IF call.rain > 2 * Scale THEN "Moderate rain"
            ELSE IF call.rain > 0 THEN "Light rain"
            ELSE IF call.precipitation > 0 THEN "Precipitation"
            ELSE "Clear sky"

C7_Witness ==
    /\ call.fn = "classify" /\ call.phase = "returned"
    /\ call.snowfall = 5 * Scale /\ call.rain = 15 * Scale
    /\ call.description = "Light snow"

\* C25: on amounts that are not negative the condition and the description
\* of a day agree: Snow with Heavy snow or Light snow, Heavy Rain with Heavy
\* rain, Rain with Moderate rain or Light rain, Precipitation with
\* Precipitation, Clear with Clear sky, each exactly.
C25_ConditionAgreesWithDescription ==
    (/\ call.fn = "classify" /\ call.phase = "returned"
     /\ call.precipitation >= 0 /\ call.rain >= 0 /\ call.snowfall >= 0) =>
        /\ call.condition = "Snow" <=> call.description \in {"Heavy snow", "Light snow"}
        /\ call.condition = "Heavy Rain" <=> call.description = "Heavy rain"
        /\ call.condition = "Rain" <=> call.description \in {"Moderate rain", "Light rain"}
        /\ call.condition = "Precipitation" <=> call.description = "Precipitation"
        /\ call.condition = "Clear" <=> call.description = "Clear sky"
        /\ call.condition \in {"Snow", "Heavy Rain", "Rain", "Precipitation", "Clear"}

\* a day of rain just over 10 with a larger total, and a pair of each class
C25_Witness ==
    /\ call.fn = "classify" /\ call.phase = "returned"
    /\ call.precipitation = 20 * Scale /\ call.rain = 10 * Scale + 1 /\ call.snowfall = 0
    /\ call.condition = "Heavy Rain" /\ call.description = "Heavy rain"
    /\ get_weather_condition(5 * Scale, 10 * Scale, 0) = "Rain"
    /\ get_weather_description(5 * Scale, 10 * Scale, 0) = "Moderate rain"
    /\ get_weather_condition(5 * Scale, 0, 0) = "Precipitation"
    /\ get_weather_description(5 * Scale, 0, 0) = "Precipitation"
    /\ get_weather_condition(0, 0, 5 * Scale + 1) = "Snow"
    /\ get_weather_description(0, 0, 5 * Scale + 1) = "Heavy snow"

----------------------------------------------------------------------------
(* Properties of the Aggregator *)

PeriodDays == {7, 30}

\* The days of the location dated from (today - period_days) to today, both included
InWindow(table, cid, now, period_days) ==
    {r \in table : r.city_id = cid /\ now - period_days <= r.date /\ r.date <= now}

\* avg is the mean of the rows' field, to the hundredth
IsMeanOf(avg, rows, field) ==
    2 * Abs(Cardinality(rows) * avg - SumField(rows, field)) <= Cardinality(rows)

\* lo and hi are the least and the greatest of vals
AreEndsOf(lo, hi, vals) ==
    /\ lo \in vals /\ hi \in vals
    /\ \A v \in vals : lo <= v /\ v <= hi

\* avg, lo and hi are taken over the rows that have a value of the field (the
\* mean to the whole number below it), and are null when none has
NullableIsOver(avg, lo, hi, rows, field) ==
    LET have == {r \in rows : r[field] # None}
        sum == SumNullable(have, field)
    IN  IF have = {} THEN avg = None /\ lo = None /\ hi = None
        ELSE /\ avg # None /\ lo # None /\ hi # None
             /\ Cardinality(have) * avg[1] <= sum
             /\ sum < Cardinality(have) * (avg[1] + 1)
             /\ AreEndsOf(lo[1], hi[1], {r[field][1] : r \in have})

\* The statistics s are those of the rows
StatsAreOver(s, rows) ==
    /\ IsMeanOf(s.avg_temperature, rows, "temperature")
    /\ s.min_temperature \in {r.temperature_min : r \in rows}
    /\ \A r \in rows : s.min_temperature <= r.temperature_min
    /\ s.max_temperature \in {r.temperature_max : r \in rows}
    /\ \A r \in rows : r.temperature_max <= s.max_temperature
    /\ IsMeanOf(s.avg_wind_speed, rows, "wind_speed")
    /\ AreEndsOf(s.min_wind_speed, s.max_wind_speed, {r.wind_speed : r \in rows})
    /\ NullableIsOver(s.avg_humidity, s.min_humidity, s.max_humidity, rows, "humidity")
    /\ NullableIsOver(s.avg_pressure, s.min_pressure, s.max_pressure, rows, "pressure")

\* C8: for each period of 7 and 30 days, the PeriodStat the Aggregator writes
\* for (location, today, period) is computed over exactly the location's days
\* dated in [today - period, today], both ends included: avg_temperature is the
\* mean of temperature, min_temperature the least temperature_min,
\* max_temperature the greatest temperature_max, and the avg/min/max of
\* humidity, wind_speed and pressure are over the non-null values only.
C8_StatsOverInclusiveWindow ==
    [][pc = "stats" =>
          \A p \in PeriodDays :
              LET rows == InWindow(weather_data, city_id, today, p)
                  written == SelectStat(weather_stats', city_id, today, p)
              IN  rows # {} =>
                     /\ Cardinality(written) = 1
                     /\ \A s \in written : StatsAreOver(s, rows)
      ]_vars

\* days of 10, 20 and 30 degrees on the first day of the window, the first day
\* of the shorter window and today, with days before and after the windows
C8_Witness ==
    /\ pc = "geocode" /\ cur_run[1].stats
    /\ {r.date : r \in SelectDay(weather_data, 1, -31) \cup SelectDay(weather_data, 1, 1)}
           = {-31, 1}
    /\ {r.temperature : r \in InWindow(weather_data, 1, today, 30)}
           = {10 * Scale, 20 * Scale, 30 * Scale}
    /\ Cardinality(InWindow(weather_data, 1, today, 30)) = 3
    /\ \E r \in InWindow(weather_data, 1, today, 30) : r.date = -30 /\ r.humidity = None
    /\ \E s \in SelectStat(weather_stats, 1, today, 30) :
           /\ s.avg_temperature = 20 * Scale
           /\ s.avg_humidity # None
    /\ \E s \in SelectStat(weather_stats, 1, today, 7) : s.avg_temperature # 20 * Scale

\* C9: the dominant_condition of a PeriodStat is a condition that no other
\* condition of the window outnumbers; a condition with strictly the highest
\* count is the one stored.
C9_DominantHasHighestCount ==
    [][pc = "stats" =>
          \A p \in PeriodDays :
              LET rows == InWindow(weather_data, city_id, today, p)
                  count(c) == Cardinality({r \in rows : r.weather_condition = c})
                  conds == {r.weather_condition : r \in rows}
              IN  rows # {} =>
                     \A s \in SelectStat(weather_stats', city_id, today, p) :
                        /\ s.dominant_condition \in conds
                        /\ \A c \in conds : count(c) <= count(s.dominant_condition)
                        /\ \A c \in conds :
                               (\A o \in conds \ {c} : count(o) < count(c))
                                   => s.dominant_condition = c
      ]_vars

\* three clear days, five of rain and two of snow
C9_Witness ==
    /\ pc = "geocode" /\ cur_run[1].stats
    /\ LET rows == InWindow(weather_data, 1, today, 30)
       IN  /\ Cardinality({r \in rows : r.weather_condition = "Clear"}) = 3
           /\ Cardinality({r \in rows : r.weather_condition = "Rain"}) = 5
           /\ Cardinality({r \in rows : r.weather_condition = "Snow"}) = 2
    /\ \E s \in SelectStat(weather_stats, 1, today, 30) : s.dominant_condition = "Rain"

\* C10: when no day of the location is inside a period's window, the
\* Aggregator writes and changes no PeriodStat row of that period, still goes
\* on to the next period, and returns success.
C10_GapWritesNothingAndGoesOn ==
    [][pc = "stats" =>
          \A p \in PeriodDays :
              InWindow(weather_data, city_id, today, p) = {} =>
                 /\ SelectStat(weather_stats', city_id, today, p)
                        = SelectStat(weather_stats, city_id, today, p)
                 /\ \A q \in PeriodDays :
                        InWindow(weather_data, city_id, today, q) # {} =>
                           /\ SelectStat(weather_stats', city_id, today, q) # {}
                           /\ \A s \in SelectStat(weather_stats', city_id, today, q) :
                                  s \notin weather_stats
                 /\ cur_run'[city_idx].stats
      ]_vars

\* the shorter window is empty and the longer is not: the stale row of the
\* shorter period is as it was, the row of the longer period is there
C10_Witness ==
    /\ pc = "geocode" /\ cur_run[1].stats
    /\ InWindow(weather_data, 1, today, 7) = {}
    /\ InWindow(weather_data, 1, today, 30) # {}
    /\ SelectStat(weather_stats, 1, today, 7) = SelectStat(StaleRows, 1, today, 7)
    /\ SelectStat(weather_stats, 1, today, 7) # {}
    /\ SelectStat(weather_stats, 1, today, 30) # {}

----------------------------------------------------------------------------
(* Properties of the batch when statements fail *)

\* C11 as stated: a call of the Aggregator begins the pass of both periods even
\* when a statement of one of them fails; a failure in the 7-day pass does not
\* keep the 30-day pass from beginning.
C11_OtherPeriodStillAttempted ==
    [][(pc = "stats" /\ connected) => attempted' = PeriodDays]_vars

\* C12 as stated: when a run has ended normally, for every location it
\* processed and every period whose window holds a day of the location, the
\* committed tables hold a PeriodStat row for (location, today, period).
C12_StatsAreCommitted ==
    (pc = "idle" /\ prev_run.valid) =>
        \A k \in 1..Len(cities_to_collect) :
            Ingested(cur_run, k) =>
                \A p \in PeriodDays :
                    (\E r \in RowsOfCity(k, committed.weather_data, committed.cities) :
                          today - p <= r.date /\ r.date <= today)
                    => \E st \in RowsOfCity(k, committed.weather_stats, committed.cities) :
                          st.stat_date = today /\ st.period_days = p

\* C16 as stated: once the connection is lost, the batch goes on to no other
\* location.
C16_LossEndsBatch ==
    [][(~connected /\ ~connected') => city_idx' = city_idx]_vars

\* C14: when geocoding a location finds no match or fails, the location is
\* skipped with nothing written, and the batch goes on to the next location
\* (or to Step 3 after the last): it does not end there.
C14_GeocodeFailureSkipsLocation ==
    [][(pc = "geocode" /\ pc' # "resolve") =>
          /\ cities' = cities /\ weather_data' = weather_data
          /\ weather_stats' = weather_stats /\ committed' = committed
          /\ cur_run' = cur_run
          /\ IF city_idx < Len(cities_to_collect)
             THEN pc' = "geocode" /\ city_idx' = city_idx + 1
             ELSE pc' = "verify"
      ]_vars

\* the first location was skipped at geocoding and the second was ingested
C14_Witness ==
    /\ pc = "verify" /\ connected
    /\ \A r \in cities : r.name # cities_to_collect[1]
    /\ cur_run[1].dates = {}
    /\ Ingested(cur_run, 2)
    /\ RowsOfCity(2, weather_data, cities) # {}

\* C15: when storing a day fails, only that day is skipped: nothing is
\* written for it, the days after it are still written, the location's
\* aggregation still runs, and the batch still goes on to the next location.
C15_FailedDayIsSkippedAlone ==
    [][/\ (pc = "write" /\ ~DayStorable(cities, city_id, daily_list[day_idx])) =>
             /\ weather_data' = weather_data /\ weather_stats' = weather_stats
             /\ committed' = committed
             /\ data_inserted' = data_inserted
             /\ city_idx' = city_idx
             /\ IF day_idx < Len(daily_list)
                THEN pc' = "write" /\ day_idx' = day_idx + 1
                ELSE pc' = "stats"
       /\ (/\ pc = "write" /\ DayStorable(cities, city_id, daily_list[day_idx])
           /\ \E j \in 1..(day_idx - 1) : ~DayStorable(cities, city_id, daily_list[j])) =>
             /\ \E r \in SelectDay(weather_data', city_id, daily_list[day_idx].date) :
                    RowHolds(r, daily_list[day_idx])
             /\ committed'.weather_data = weather_data'
       /\ (/\ pc = "stats"
           /\ \E j \in 1..Len(daily_list) : ~DayStorable(cities, city_id, daily_list[j])) =>
             /\ cur_run'[city_idx].stats
             /\ attempted' = PeriodDays
             /\ \/ pc' = "geocode" /\ city_idx' = city_idx + 1
                \/ pc' = "verify" /\ city_idx = Len(cities_to_collect)
      ]_vars

\* the first day of the first location could not be stored; its later day was
\* stored, its statistics were computed and the second location was ingested
C15_Witness ==
    /\ pc = "verify"
    /\ cur_run[1].dates = {today - 8} /\ cur_run[1].stats
    /\ SelectDay(weather_data, 1, today - 30) = {}
    /\ SelectDay(weather_data, 1, today - 8) # {}
    /\ RowsOfCity(1, weather_stats, cities) # {}
    /\ Ingested(cur_run, 2)

\* C17: a location goes through resolve, fetch, the write of each day in turn
\* and the aggregation of both periods, in this order: the aggregation begins
\* only after the last day was attempted, and the next location begins only
\* when the current one has ended.
C17_OneLocationAtATime ==
    [][/\ (pc' = "resolve" /\ pc # "resolve") => (pc = "geocode" /\ city_idx' = city_idx)
       /\ (pc' = "fetch" /\ pc # "fetch") => (pc = "resolve" /\ city_idx' = city_idx)
       /\ (pc' = "write" /\ pc # "write") =>
             (pc = "fetch" /\ day_idx' = 1 /\ city_idx' = city_idx)
       /\ (pc' = "write" /\ pc = "write" /\ day_idx' # day_idx) =>
             (day_idx' = day_idx + 1 /\ city_idx' = city_idx)
       /\ (pc' = "stats" /\ pc # "stats") =>
             (pc = "write" /\ day_idx = Len(daily_list) /\ city_idx' = city_idx)
       /\ (pc = "stats" /\ pc' # "stats" /\ cur_run'[city_idx].stats) =>
             attempted' = PeriodDays
       /\ (pc' = "geocode" /\ pc # "geocode") => pc \in {"idle", "resolve", "fetch", "stats"}
       /\ city_idx' # city_idx =>
             \/ pc = "idle" /\ city_idx' = 1
             \/ /\ city_idx' = city_idx + 1 /\ pc' = "geocode"
                /\ pc \in {"geocode", "resolve", "fetch", "stats"}
       /\ (pc' = "verify" /\ pc # "verify") =>
             (city_idx = Len(cities_to_collect) /\ pc \in {"geocode", "resolve", "fetch", "stats"})
      ]_vars

\* the second location is at its aggregation, after the last of several days,
\* the first location having been aggregated
C17_Witness ==
    /\ pc = "stats" /\ city_idx = 2
    /\ Len(daily_list) > 1 /\ day_idx = Len(daily_list)
    /\ data_inserted = Len(daily_list)
    /\ cur_run[1].stats /\ ~cur_run[2].stats

\* The DayRecords of a table: its rows without the surrogate id
DayRecords(table) == {[r EXCEPT !.id = 0] : r \in table}

\* C21: two calls of the writer for one location and two dates do not touch
\* each other's row: a call changes rows of its own (location, date) only, and
\* when both are done the table holds the same DayRecords as the two calls
\* applied one after the other in either order, one row per (location, date).
C21_WritesOfTwoDatesCommute ==
    [][call.fn = "upsert" =>
         /\ \A i \in 1..2 :
              (call.w[i].pc = "store" /\ call'.w[i].pc = "done") =>
                 /\ \A r \in weather_data :
                      (r.city_id # city_id \/ r.date # call.w[i].d.date) => r \in weather_data'
                 /\ \A r \in weather_data' :
                      (r.city_id # city_id \/ r.date # call.w[i].d.date) => r \in weather_data
                 /\ \E r \in SelectDay(weather_data', city_id, call.w[i].d.date) :
                      RowHolds(r, call.w[i].d)
         /\ UniqueDayKeys(weather_data')
         /\ (\A i \in 1..2 : call'.w[i].pc = "done") =>
              /\ DayRecords(weather_data') =
                    DayRecords(UpsertDay(UpsertDay(call.before, city_id, call.w[1].d),
                                         city_id, call.w[2].d))
              /\ DayRecords(weather_data') =
                    DayRecords(UpsertDay(UpsertDay(call.before, city_id, call.w[2].d),
                                         city_id, call.w[1].d))
      ]_vars

\* both calls looked up before either stored, the second stored first; the
\* first date had a row of an earlier run (updated), the second had none
\* (inserted)
C21_Witness ==
    /\ call.fn = "upsert"
    /\ call.order = <<2, 1>>
    /\ call.w[1].result # {} /\ call.w[2].result = {}
    /\ SelectDay(call.before, city_id, WriterDates[1]) # {}
    /\ \E r \in SelectDay(weather_data, city_id, WriterDates[1]) : RowHolds(r, call.w[1].d)
    /\ \E r \in SelectDay(weather_data, city_id, WriterDates[2]) : RowHolds(r, call.w[2].d)
    /\ Cardinality(weather_data) = Cardinality(call.before) + 1

\* C26: when the fetch of a resolved location gives an empty series, the
\* rest of the location is skipped: no table changes, nothing is committed,
\* the aggregation is not run, and the batch is at the next location (or at
\* Step 3 after the last); the writer and the aggregation only ever run on a
\* series that is not empty.
C26_EmptySeriesSkipsLocation ==
    [][/\ (pc = "fetch" /\ daily_list' = <<>>) =>
             /\ cities' = cities /\ weather_data' = weather_data
             /\ weather_stats' = weather_stats /\ committed' = committed
             /\ cur_run' = cur_run /\ attempted' = attempted
             /\ IF city_idx < Len(cities_to_collect)
                THEN pc' = "geocode" /\ city_idx' = city_idx + 1
                ELSE pc' = "verify"
       /\ pc' \in {"write", "stats"} => daily_list' # <<>>
      ]_vars

\* in a second run the first location, which has days and statistics stored
\* by the first run, got an empty series and the batch is at the second one
C26_Witness ==
    /\ runs = 2 /\ pc = "geocode" /\ city_idx = 2
    /\ daily_list = <<>>
    /\ cur_run[1] = NoOutcome
    /\ RowsOfCity(1, weather_data, cities) # {}
    /\ RowsOfCity(1, weather_stats, cities) # {}
    /\ RowsOfCity(1, weather_data, cities) = RowsOfCity(1, committed.weather_data, cities)

\* C27 as stated: a successful aggregation of a location that writes its
\* 7-day statistic also writes its 30-day statistic, whose minimum is not
\* above and whose maximum is not below the 7-day ones, and every day written
\* for the location in the run is dated inside the 30-day window of the call.
C27_WrittenDaysInsideThirtyDayWindow ==
    [][(pc = "stats" /\ pc' # "stats" /\ cur_run'[city_idx].stats) =>
          /\ InWindow(weather_data, city_id, today, 7) # {} =>
                \E r7, r30 \in weather_stats' :
                    /\ r7.city_id = city_id /\ r7.stat_date = today /\ r7.period_days = 7
                    /\ r30.city_id = city_id /\ r30.stat_date = today /\ r30.period_days = 30
                    /\ r30.min_temperature <= r7.min_temperature
                    /\ r30.max_temperature >= r7.max_temperature
          /\ \A d \in cur_run[city_idx].dates : today - 30 <= d /\ d <= today
      ]_vars

----------------------------------------------------------------------------
(* Properties of the read API *)

\* C22: no request to the API changes a row of cities, weather_data or
\* weather_stats: after every request the stored tables are what they were.
C22_ApiIsReadOnly ==
    [][/\ committed' = committed
       /\ cities' = cities /\ weather_data' = weather_data /\ weather_stats' = weather_stats
      ]_vars

\* the last of several requests answered the days of a location from tables
\* that hold days and statistics
C22_Witness ==
    /\ call.fn = "get_weather" /\ call.status = 200
    /\ call.served = MaxRequests
    /\ Len(call.body) = Len(ApiDates)
    /\ committed.weather_stats # {}
    /\ Cardinality(committed.weather_data) = Len(ApiDates)

\* The stored day of a location that an entry of the response is of
StoredDay(cid, date) ==
    CHOOSE r \in committed.weather_data : r.city_id = cid /\ r.date = date

\* C28 as stated: in every DayRecord of the response of GET /weather/<city_id>
\* each of feels_like, pressure, humidity, wind_speed and wind_direction is the
\* stored value, null only when the stored value is null: a stored 0 comes
\* back as 0.
C28_WeatherFieldsAsStored ==
    (call.fn = "get_weather" /\ call.status = 200) =>
        \A i \in 1..Len(call.body) :
            LET item == call.body[i]
                row == StoredDay(call.request[1], item.date)
            IN  /\ item.feels_like = Some(row.feels_like)
                /\ item.wind_speed = Some(row.wind_speed)
                /\ item.wind_direction = Some(row.wind_direction)
                /\ item.pressure = row.pressure
                /\ item.humidity = row.humidity

----------------------------------------------------------------------------
(* Properties of the Location Resolver *)

\* No two rows of cities share (name, country)
UniqueCityKeys(table) ==
    \A r1, r2 \in table : (r1.name = r2.name /\ r1.country = r2.country) => r1 = r2

\* C13: resolving a place whose (name, country) is stored returns the stored
\* id and changes nothing; resolving a new one inserts exactly one row; no
\* two rows ever share (name, country); no stored row is ever changed or
\* removed, whatever coordinates the geocoding source reports later.
C13_ResolveIsIdempotent ==
    [][/\ UniqueCityKeys(cities') /\ UniqueCityKeys(committed'.cities)
       /\ \A r \in cities : r \in cities'
       /\ \A r \in committed.cities : r \in committed'.cities
       /\ pc = "resolve" =>
             LET info == city_info[1]
                 found == SelectCity(cities, info.name, info.country)
             IN  IF found # {}
                 THEN /\ cities' = cities
                      /\ committed' = committed
                      /\ city_id' \in {r.id : r \in found}
                 ELSE /\ Cardinality(cities') = Cardinality(cities) + 1
                      /\ \E r \in cities' \ cities :
                            /\ r.name = info.name /\ r.country = info.country
                            /\ r.latitude = info.latitude /\ r.longitude = info.longitude
                            /\ city_id' = r.id
                      /\ committed'.cities = cities'
      ]_vars

\* a second run has resolved a place that the source has moved since the first
\* run stored it: the stored row is the one of the first run
C13_Witness ==
    /\ runs = 2 /\ pc = "fetch" /\ city_idx = 1
    /\ city_info \in MovedResults(cities_to_collect[1])
    /\ \E r \in cities :
          /\ r.id = city_id
          /\ r.name = city_info[1].name
          /\ r.latitude # city_info[1].latitude
    /\ Cardinality(cities) = 2

====
